---- MODULE Spec2Model ----
(***************************************************************************)
(* The position core of the chess engine (position.cpp): the board and its *)
(* redundant representations, the StateInfo history, make / unmake of      *)
(* every move kind, null moves, the legality and check predicates, FEN     *)
(* input and output, draw detection, the static exchange evaluator and the *)
(* copy of a position.                                                     *)
(*                                                                         *)
(* Bitboards are modelled as sets of squares (bit s set <=> s in the set), *)
(* so that |, &, ^ and ~ are union, intersection, symmetric difference and *)
(* complement.  Zobrist keys are modelled as sets of key atoms, one atom   *)
(* per freshly drawn random number, with ^ again the symmetric difference. *)
(***************************************************************************)
EXTENDS Integers, Sequences, FiniteSets, TLC

(***************************************************************************)
(* Bounds of the model.                                                    *)
(***************************************************************************)
\* depth of the caller's stack: moves and null moves made and not yet unmade
MaxPly == 2
\* do_move calls made in one run (the nodes counter never exceeds it)
MaxNodes == 2
\* depth of the stack, and do_move calls, from the roots of the scenarios
MaxGamePly == 1
\* the same from the root the repetition walk of is_draw is run from: the
\* walk compares records four plies apart and farther
MaxRepPly == 4
\* the same from the roots the exchanges of see are played on
MaxSeePly == 1
\* the same from the Chess960 roots
Max960Ply == 1
\* and from the roots that is_pseudo_legal is tried on
MaxLegalPly == 1
\* the longest string handed to path_normalize
MaxLen == 2

(***************************************************************************)
(* types.h: colours, piece types, pieces, squares, castle rights, moves.   *)
(***************************************************************************)
WHITE == 0
BLACK == 1
NO_PIECE_TYPE == 0
ALL_PIECES == 0
PAWN == 1
KNIGHT == 2
BISHOP == 3
ROOK == 4
QUEEN == 5
KING == 6
NO_PIECE == 16
SQ_NONE == 64
KING_SIDE == 0
QUEEN_SIDE == 1
NORMAL == 0
PROMOTION == 1
ENPASSANT == 2
CASTLE == 3
DELTA_N == 8
DELTA_NN == 16
DELTA_NE == 9
DELTA_NW == 7
NULLPTR == -1

Squares == 0 .. 63
Colors == {WHITE, BLACK}
PieceTypes == PAWN .. KING

Opp(c) == 1 - c
make_piece(c, pt) == c * 8 + pt
type_of(p) == p % 8
color_of(p) == p \div 8
file_of(s) == s % 8
rank_of(s) == s \div 8
make_square(f, r) == r * 8 + f
FlipSq(s) == make_square(file_of(s), 7 - rank_of(s))
relative_square(c, s) == IF c = WHITE THEN s ELSE FlipSq(s)
relative_rank(c, r) == IF c = WHITE THEN r ELSE 7 - r
pawn_push(c) == IF c = WHITE THEN DELTA_N ELSE -DELTA_N
make_castle_right(c, cs) == IF cs = KING_SIDE THEN c ELSE 2 + c

\* Move = to | from << 6 | (promotion - KNIGHT) << 12 | kind << 14
make_move(from, to) == to + 64 * from
make_special(from, to, kind, promo) ==
    to + 64 * from + 4096 * (promo - KNIGHT) + 16384 * kind
from_sq(m) == (m \div 64) % 64
to_sq(m) == m % 64
move_type(m) == m \div 16384
promotion_type(m) == ((m \div 4096) % 4) + KNIGHT

Xor(a, b) == (a \ b) \cup (b \ a)
Min2(a, b) == IF a < b THEN a ELSE b
Max2(a, b) == IF a < b THEN b ELSE a
Abs(a) == IF a < 0 THEN -a ELSE a

SQ_A1 == 0
SQ_C1 == 2
SQ_D1 == 3
SQ_F1 == 5
SQ_G1 == 6
SQ_H1 == 7
SQ_A8 == 56

(***************************************************************************)
(* bitboard.h: the precomputed attack tables.                              *)
(***************************************************************************)
OnBoard(f, r) == f \in 0 .. 7 /\ r \in 0 .. 7

StepTargets(s, deltas) ==
    { make_square(file_of(s) + d[1], rank_of(s) + d[2]) :
        d \in { e \in deltas : OnBoard(file_of(s) + e[1], rank_of(s) + e[2]) } }

KnightDeltas == { <<1, 2>>, <<2, 1>>, <<2, -1>>, <<1, -2>>,
                  <<-1, -2>>, <<-2, -1>>, <<-2, 1>>, <<-1, 2>> }
KingDeltas == { <<1, 0>>, <<1, 1>>, <<0, 1>>, <<-1, 1>>,
                <<-1, 0>>, <<-1, -1>>, <<0, -1>>, <<1, -1>> }
RookDirs == { <<1, 0>>, <<-1, 0>>, <<0, 1>>, <<0, -1>> }
BishopDirs == { <<1, 1>>, <<1, -1>>, <<-1, 1>>, <<-1, -1>> }

\* StepAttacksBB[piece][square] for pawns, knights and kings
StepAttacksBB ==
    [ p \in 0 .. 16 |-> [ s \in Squares |->
        CASE type_of(p) = PAWN /\ p < 16 ->
                 StepTargets(s, IF color_of(p) = WHITE
                                THEN { <<-1, 1>>, <<1, 1>> }
                                ELSE { <<-1, -1>>, <<1, -1>> })
          [] type_of(p) = KNIGHT -> StepTargets(s, KnightDeltas)
          [] type_of(p) = KING -> StepTargets(s, KingDeltas)
          [] OTHER -> {} ] ]

\* the squares met walking from s in direction d up to the edge of the board
RayLen(s, d) ==
    CHOOSE n \in 0 .. 7 :
        /\ \A i \in 1 .. n : OnBoard(file_of(s) + i * d[1], rank_of(s) + i * d[2])
        /\ ~OnBoard(file_of(s) + (n + 1) * d[1], rank_of(s) + (n + 1) * d[2])
Ray == [ s \in Squares |-> [ d \in RookDirs \cup BishopDirs |->
           [ i \in 1 .. RayLen(s, d) |->
               make_square(file_of(s) + i * d[1], rank_of(s) + i * d[2]) ] ] ]

\* PseudoAttacks[pt][s]: the attacks of a slider on an empty board
PseudoAttacks == [ pt \in {BISHOP, ROOK, QUEEN} |-> [ s \in Squares |->
    UNION { { Ray[s][d][i] : i \in 1 .. Len(Ray[s][d]) } :
            d \in CASE pt = ROOK -> RookDirs
                    [] pt = BISHOP -> BishopDirs
                    [] OTHER -> RookDirs \cup BishopDirs } ] ]

\* BetweenBB[s1][s2]: the squares strictly between two squares of one line
BetweenBB == [ s1 \in Squares |-> [ s2 \in Squares |->
    IF s2 \in PseudoAttacks[QUEEN][s1]
    THEN LET d == CHOOSE e \in RookDirs \cup BishopDirs :
                     \E i \in 1 .. Len(Ray[s1][e]) : Ray[s1][e][i] = s2
             n == CHOOSE i \in 1 .. Len(Ray[s1][d]) : Ray[s1][d][i] = s2
         IN { Ray[s1][d][i] : i \in 1 .. n - 1 }
    ELSE {} ] ]

\* attacks_bb<ROOK>(s, occ), attacks_bb<BISHOP>(s, occ): the squares of the
\* slider's lines with no occupied square between them and s
attacks_bb(pt, s, occ) ==
    { t \in PseudoAttacks[pt][s] : BetweenBB[s][t] \cap occ = {} }
between_bb(s1, s2) == BetweenBB[s1][s2]

squares_aligned(s1, s2, s3) ==
    (BetweenBB[s1][s2] \cup BetweenBB[s1][s3] \cup BetweenBB[s2][s3])
        \cap {s1, s2, s3} # {}

(***************************************************************************)
(* Zobrist keys and the piece-square tables (Zobrist::init).  Every call   *)
(* of rk.rand<Key>() yields its own atom; a key is the set of the atoms    *)
(* XORed into it and the key 0 is the empty set.                           *)
(***************************************************************************)
Zobrist_psq(c, pt, s) == { c * 512 + pt * 64 + s }
Zobrist_enpassant(f) == { 1024 + f }
\* the exclusion key drawn next (line 85) enters no key of a position
Zobrist_side == { 1040 }

RECURSIVE XorAll(_)
XorAll(keys) ==
    IF keys = {} THEN {}
    ELSE LET k == CHOOSE x \in keys : TRUE IN Xor(k, XorAll(keys \ {k}))

\* the bits set in cr, and the number with the bits b set
BitsOf(cr) == { b \in 0 .. 3 : (cr \div 2^b) % 2 = 1 }
RECURSIVE MaskOf(_)
MaskOf(b) == IF b = {} THEN 0 ELSE LET i == CHOOSE x \in b : TRUE IN 2^i + MaskOf(b \ {i})

\* Zobrist::init with one fault: every bit of every entry draws a new key
RECURSIVE ZobristInitWhile_AlwaysRand(_, _, _, _)
ZobristInitWhile_AlwaysRand(castle, rk, cr, b) ==
    IF b = {} THEN [ castle |-> castle, rk |-> rk ]
    ELSE LET i == CHOOSE x \in b : \A y \in b : x <= y
         IN ZobristInitWhile_AlwaysRand([ castle EXCEPT ![cr] = Xor(@, {rk}) ],
                                        rk + 1, cr, b \ {i})

\* Zobrist::init, the while loop over the bits b of cr: castle[cr] ^= k ? k :
\* rk.rand<Key>() with k = castle[1 << pop_lsb(&b)].  castle is the table so
\* far, all zero at first; rk is the key the generator hands out next, its
\* keys being one atom each
RECURSIVE ZobristInitWhile(_, _, _, _)
ZobristInitWhile(castle, rk, cr, b) ==
    IF b = {} THEN [ castle |-> castle, rk |-> rk ]
    ELSE LET i == CHOOSE x \in b : \A y \in b : x <= y
             k == castle[2^i]
         IN IF k # {}
            THEN ZobristInitWhile([ castle EXCEPT ![cr] = Xor(@, k) ], rk, cr, b \ {i})
            ELSE ZobristInitWhile([ castle EXCEPT ![cr] = Xor(@, {rk}) ], rk + 1, cr, b \ {i})

\* Zobrist::init, the loop for (cr = CASTLES_NONE; cr <= ALL_CASTLES; cr++)
RECURSIVE ZobristInitFor(_, _, _)
ZobristInitFor(castle, rk, cr) ==
    IF cr > 15 THEN castle
    ELSE LET r == ZobristInitWhile(castle, rk, cr, BitsOf(cr))
         IN ZobristInitFor(r.castle, r.rk, cr + 1)

\* Zobrist::castle after Zobrist::init, indexed by the castle rights as a
\* number; the psq and enpassant keys are drawn before it
castle == ZobristInitFor([ cr \in 0 .. 15 |-> {} ], 1032, 0)

\* castle[cr] for castle rights held as a set of bits
Zobrist_castle == [ cr \in SUBSET (0 .. 3) |-> castle[MaskOf(cr)] ]

PawnValueMg == 198
PawnValueEg == 258
KnightValueMg == 817
KnightValueEg == 846
BishopValueMg == 836
BishopValueEg == 857
RookValueMg == 1270
RookValueEg == 1278
QueenValueMg == 2521
QueenValueEg == 2558

\* PieceValue[Mg][pt] and PieceValue[Eg][pt]; the king and no piece are 0
PieceValueMg(pt) ==
    CASE pt = PAWN -> PawnValueMg
      [] pt = KNIGHT -> KnightValueMg
      [] pt = BISHOP -> BishopValueMg
      [] pt = ROOK -> RookValueMg
      [] pt = QUEEN -> QueenValueMg
      [] OTHER -> 0
PieceValueEg(pt) ==
    CASE pt = PAWN -> PawnValueEg
      [] pt = KNIGHT -> KnightValueEg
      [] pt = BISHOP -> BishopValueEg
      [] pt = ROOK -> RookValueEg
      [] pt = QUEEN -> QueenValueEg
      [] OTHER -> 0

make_score(mg, eg) == mg * 65536 + eg

\* PSQT[pt][s] of psqtab.h: a white-oriented table, symmetric in the files
PSQT(pt, s) ==
    LET f == Min2(file_of(s), 7 - file_of(s))
        r == rank_of(s)
    IN make_score(3 * pt * r + 5 * f - 4 * pt, 2 * r * (7 - pt) - 7 * f + pt)

\* pieceSquareTable with one fault: the black entries are not mirrored
pieceSquareTable_NoMirror ==
    [ p \in 0 .. 16 |-> [ s \in Squares |->
        IF p = NO_PIECE \/ type_of(p) \notin PieceTypes THEN 0
        ELSE LET pt == type_of(p)
                 v == make_score(PieceValueMg(pt), PieceValueEg(pt))
             IN IF color_of(p) = WHITE THEN v + PSQT(pt, s)
                ELSE -(v + PSQT(pt, s)) ] ]
\* pieceSquareTable[piece][square] as filled by Zobrist::init
pieceSquareTable ==
    [ p \in 0 .. 16 |-> [ s \in Squares |->
        IF p = NO_PIECE \/ type_of(p) \notin PieceTypes THEN 0
        ELSE LET pt == type_of(p)
                 v == make_score(PieceValueMg(pt), PieceValueEg(pt))
             IN IF color_of(p) = WHITE THEN v + PSQT(pt, s)
                ELSE -(v + PSQT(pt, FlipSq(s))) ] ]

psq_delta(p, from, to) == pieceSquareTable[p][to] - pieceSquareTable[p][from]

(***************************************************************************)
(* StateInfo and the Position object.  mem holds every StateInfo record:   *)
(* mem[0] is the position's own startState, mem[1..] are the records the   *)
(* caller owns, one for each ply of its stack and one for the ply below.   *)
(***************************************************************************)
MaxRec == Max2(MaxPly, MaxRepPly) + 1

\* a record after memset(0) and startState.epSquare = SQ_NONE
ZeroState ==
    [ pawnKey |-> {}, materialKey |-> {}, npMaterial |-> [c \in Colors |-> 0],
      castleRights |-> {}, rule50 |-> 0, pliesFromNull |-> 0, psqScore |-> 0,
      epSquare |-> SQ_NONE, key |-> {}, checkersBB |-> {},
      capturedType |-> NO_PIECE_TYPE, previous |-> NULLPTR ]

\* a caller's record that nothing has been written to yet: no field of it
\* is meaningful
FreshState ==
    [ ZeroState EXCEPT !.key = {2047}, !.pawnKey = {2047}, !.materialKey = {2047},
                       !.rule50 = -1, !.pliesFromNull = -1, !.psqScore = -1 ]

\* moves is the caller's stack of moves made and not yet unmade, limit its
\* bounds: the depth of the stack and the do_move calls made from the root;
\* frame is a call of path_normalize of the mac module: its arguments in and
\* out (the bytes at the two addresses), its local i and the statement it is at
VARIABLES board, byTypeBB, byColorBB, pieceCount, pieceList, index,
          castleRightsMask, castleRookSquare, castlePath,
          sideToMove, nodes, startPosPly, chess960, st, mem, moves, limit, frame

vars == << board, byTypeBB, byColorBB, pieceCount, pieceList, index,
           castleRightsMask, castleRookSquare, castlePath,
           sideToMove, nodes, startPosPly, chess960, st, mem, moves, limit, frame >>

\* the Position object together with the records its st chain runs through
Pos ==
    [ board |-> board, byTypeBB |-> byTypeBB, byColorBB |-> byColorBB,
      pieceCount |-> pieceCount, pieceList |-> pieceList, index |-> index,
      castleRightsMask |-> castleRightsMask,
      castleRookSquare |-> castleRookSquare, castlePath |-> castlePath,
      sideToMove |-> sideToMove, nodes |-> nodes, startPosPly |-> startPosPly,
      chess960 |-> chess960, st |-> st, mem |-> mem ]

SetPos(P) ==
    /\ board' = P.board
    /\ byTypeBB' = P.byTypeBB
    /\ byColorBB' = P.byColorBB
    /\ pieceCount' = P.pieceCount
    /\ pieceList' = P.pieceList
    /\ index' = P.index
    /\ castleRightsMask' = P.castleRightsMask
    /\ castleRookSquare' = P.castleRookSquare
    /\ castlePath' = P.castlePath
    /\ sideToMove' = P.sideToMove
    /\ nodes' = P.nodes
    /\ startPosPly' = P.startPosPly
    /\ chess960' = P.chess960
    /\ st' = P.st
    /\ mem' = P.mem

\* Position::clear()
clear ==
    [ board |-> [s \in Squares |-> NO_PIECE],
      byTypeBB |-> [pt \in 0 .. 6 |-> {}],
      byColorBB |-> [c \in Colors |-> {}],
      pieceCount |-> [c \in Colors |-> [pt \in 0 .. 6 |-> 0]],
      pieceList |-> [c \in Colors |-> [pt \in 0 .. 6 |-> [i \in 0 .. 15 |-> SQ_NONE]]],
      index |-> [s \in Squares |-> 0],
      castleRightsMask |-> [s \in Squares |-> {}],
      castleRookSquare |-> [c \in Colors |-> [cs \in {KING_SIDE, QUEEN_SIDE} |-> SQ_A1]],
      castlePath |-> [c \in Colors |-> [cs \in {KING_SIDE, QUEEN_SIDE} |-> {}]],
      sideToMove |-> WHITE, nodes |-> 0, startPosPly |-> 0, chess960 |-> FALSE,
      st |-> 0,
      mem |-> [i \in 0 .. MaxRec |-> IF i = 0 THEN ZeroState ELSE FreshState] ]

\* the inline accessors of position.h
St(P) == P.mem[P.st]
pieces(P) == P.byTypeBB[ALL_PIECES]
pieces_c(P, c) == P.byColorBB[c]
pieces_t(P, pt) == P.byTypeBB[pt]
pieces_tt(P, pt1, pt2) == P.byTypeBB[pt1] \cup P.byTypeBB[pt2]
pieces_ct(P, c, pt) == P.byColorBB[c] \cap P.byTypeBB[pt]
pieces_ctt(P, c, pt1, pt2) == P.byColorBB[c] \cap (P.byTypeBB[pt1] \cup P.byTypeBB[pt2])
piece_on(P, s) == P.board[s]
is_empty(P, s) == P.board[s] = NO_PIECE
piece_moved(P, m) == P.board[from_sq(m)]
king_square(P, c) == P.pieceList[c][KING][0]
ep_square(P) == St(P).epSquare
checkers(P) == St(P).checkersBB
in_check(P) == St(P).checkersBB # {}
can_castle(P, cr) == cr \in St(P).castleRights
castle_impeded(P, c, cs) == (P.byTypeBB[ALL_PIECES] \cap P.castlePath[c][cs]) # {}
castle_rook_square(P, c, cs) == P.castleRookSquare[c][cs]

\* attacks_from<Pt>(s) and attacks_from<PAWN>(s, c) of position.h
attacks_from_t(P, pt, s) ==
    CASE pt = BISHOP \/ pt = ROOK -> attacks_bb(pt, s, pieces(P))
      [] pt = QUEEN -> attacks_bb(ROOK, s, pieces(P)) \cup attacks_bb(BISHOP, s, pieces(P))
      [] OTHER -> StepAttacksBB[pt][s]
attacks_from_pawn(s, c) == StepAttacksBB[make_piece(c, PAWN)][s]

\* Position::attacks_from(Piece, Square, Bitboard)
attacks_from(p, s, occ) ==
    CASE type_of(p) = BISHOP -> attacks_bb(BISHOP, s, occ)
      [] type_of(p) = ROOK -> attacks_bb(ROOK, s, occ)
      [] type_of(p) = QUEEN -> attacks_bb(BISHOP, s, occ) \cup attacks_bb(ROOK, s, occ)
      [] OTHER -> StepAttacksBB[p][s]

\* Position::attackers_to(Square, Bitboard)
attackers_to(P, s, occ) ==
    (attacks_from_pawn(s, BLACK) \cap pieces_ct(P, WHITE, PAWN))
    \cup (attacks_from_pawn(s, WHITE) \cap pieces_ct(P, BLACK, PAWN))
    \cup (StepAttacksBB[KNIGHT][s] \cap pieces_t(P, KNIGHT))
    \cup (attacks_bb(ROOK, s, occ) \cap pieces_tt(P, ROOK, QUEEN))
    \cup (attacks_bb(BISHOP, s, occ) \cap pieces_tt(P, BISHOP, QUEEN))
    \cup (StepAttacksBB[KING][s] \cap pieces_t(P, KING))

\* Position::move_attacks_square
move_attacks_square(P, m, s) ==
    LET from == from_sq(m)
        to == to_sq(m)
        piece == piece_moved(P, m)
        occ == Xor(Xor(pieces(P), {from}), {to})
        xray == (attacks_bb(ROOK, s, occ) \cap pieces_ctt(P, color_of(piece), QUEEN, ROOK))
                \cup (attacks_bb(BISHOP, s, occ) \cap pieces_ctt(P, color_of(piece), QUEEN, BISHOP))
    IN IF s \in attacks_from(piece, to, occ) THEN TRUE
       ELSE xray # {} /\ Xor(xray, xray \cap attacks_from_t(P, QUEEN, s)) # {}

\* hidden_checkers with one fault: the piece in between may be of either side
hidden_checkers_AnyColor(P, FindPinned) ==
    LET ksq == king_square(P, IF FindPinned THEN P.sideToMove ELSE Opp(P.sideToMove))
        pinners == pieces_c(P, IF FindPinned THEN Opp(P.sideToMove) ELSE P.sideToMove)
                   \cap ((pieces_tt(P, ROOK, QUEEN) \cap PseudoAttacks[ROOK][ksq])
                         \cup (pieces_tt(P, BISHOP, QUEEN) \cap PseudoAttacks[BISHOP][ksq]))
    IN UNION { LET b == between_bb(ksq, s) \cap pieces(P)
               IN IF b # {} /\ Cardinality(b) <= 1 THEN b ELSE {} : s \in pinners }
\* Position::hidden_checkers<FindPinned>()
hidden_checkers(P, FindPinned) ==
    LET ksq == king_square(P, IF FindPinned THEN P.sideToMove ELSE Opp(P.sideToMove))
        pinners == pieces_c(P, IF FindPinned THEN Opp(P.sideToMove) ELSE P.sideToMove)
                   \cap ((pieces_tt(P, ROOK, QUEEN) \cap PseudoAttacks[ROOK][ksq])
                         \cup (pieces_tt(P, BISHOP, QUEEN) \cap PseudoAttacks[BISHOP][ksq]))
    IN UNION { LET b == between_bb(ksq, s) \cap pieces(P)
               IN IF b # {} /\ Cardinality(b) <= 1 /\ (b \cap pieces_c(P, P.sideToMove)) # {}
                  THEN b ELSE {} : s \in pinners }
pinned_pieces(P) == hidden_checkers(P, TRUE)
discovered_check_candidates(P) == hidden_checkers(P, FALSE)

\* CheckInfo::CheckInfo
CheckInfo(P) ==
    LET them == Opp(P.sideToMove)
        ksq == king_square(P, them)
    IN [ ksq |-> ksq,
         pinned |-> pinned_pieces(P),
         dcCandidates |-> discovered_check_candidates(P),
         checkSq |-> [ pt \in PieceTypes |->
             CASE pt = PAWN -> attacks_from_pawn(ksq, them)
               [] pt = KNIGHT -> attacks_from_t(P, KNIGHT, ksq)
               [] pt = BISHOP -> attacks_from_t(P, BISHOP, ksq)
               [] pt = ROOK -> attacks_from_t(P, ROOK, ksq)
               [] pt = QUEEN -> attacks_from_t(P, BISHOP, ksq) \cup attacks_from_t(P, ROOK, ksq)
               [] OTHER -> {} ] ]

(***************************************************************************)
(* Setting a position up: put_piece, set_castle_right, the from-scratch    *)
(* computations and from_fen.  A FEN string is a sequence of characters.   *)
(***************************************************************************)
lsb(b) == CHOOSE s \in b : \A t \in b : s <= t

\* Position::put_piece
put_piece(P, p, s) ==
    LET c == color_of(p)
        pt == type_of(p)
        i == P.pieceCount[c][pt]
    IN [ P EXCEPT !.board[s] = p,
                  !.index[s] = i,
                  !.pieceCount[c][pt] = i + 1,
                  !.pieceList[c][pt][i] = s,
                  !.byTypeBB[ALL_PIECES] = @ \cup {s},
                  !.byTypeBB[pt] = @ \cup {s},
                  !.byColorBB[c] = @ \cup {s} ]

\* Position::set_castle_right
set_castle_right(P, c, rfrom) ==
    LET kfrom == king_square(P, c)
        cs == IF kfrom < rfrom THEN KING_SIDE ELSE QUEEN_SIDE
        cr == make_castle_right(c, cs)
        kto == relative_square(c, IF cs = KING_SIDE THEN SQ_G1 ELSE SQ_C1)
        rto == relative_square(c, IF cs = KING_SIDE THEN SQ_F1 ELSE SQ_D1)
        path == { s \in Min2(rfrom, rto) .. Max2(rfrom, rto) : s # kfrom /\ s # rfrom }
                \cup { s \in Min2(kfrom, kto) .. Max2(kfrom, kto) : s # kfrom /\ s # rfrom }
        P1 == [ P EXCEPT !.mem[P.st].castleRights = @ \cup {cr} ]
        P2 == [ P1 EXCEPT !.castleRightsMask[kfrom] = @ \cup {cr} ]
        P3 == [ P2 EXCEPT !.castleRightsMask[rfrom] = @ \cup {cr} ]
    IN [ P3 EXCEPT !.castleRookSquare[c][cs] = rfrom,
                   !.castlePath[c][cs] = @ \cup path ]

\* Position::compute_key
RECURSIVE XorPieces(_, _, _)
XorPieces(P, b, k) ==
    IF b = {} THEN k
    ELSE LET s == lsb(b)
         IN XorPieces(P, b \ {s},
                      Xor(k, Zobrist_psq(color_of(piece_on(P, s)), type_of(piece_on(P, s)), s)))
compute_key(P) ==
    LET k0 == XorPieces(P, pieces(P), Zobrist_castle[St(P).castleRights])
        k1 == IF ep_square(P) # SQ_NONE
              THEN Xor(k0, Zobrist_enpassant(file_of(ep_square(P)))) ELSE k0
    IN IF P.sideToMove = BLACK THEN Xor(k1, Zobrist_side) ELSE k1

\* Position::compute_pawn_key
RECURSIVE XorPawns(_, _, _)
XorPawns(P, b, k) ==
    IF b = {} THEN k
    ELSE LET s == lsb(b)
         IN XorPawns(P, b \ {s}, Xor(k, Zobrist_psq(color_of(piece_on(P, s)), PAWN, s)))
compute_pawn_key(P) == XorPawns(P, pieces_t(P, PAWN), {})

\* Position::compute_material_key
compute_material_key(P) ==
    XorAll({ Zobrist_psq(x[1], x[2], x[3]) :
             x \in { y \in Colors \X (PAWN .. QUEEN) \X (0 .. 15) :
                     y[3] < P.pieceCount[y[1]][y[2]] } })

\* Position::compute_psq_score
RECURSIVE SumPsq(_, _, _)
SumPsq(P, b, score) ==
    IF b = {} THEN score
    ELSE LET s == lsb(b)
         IN SumPsq(P, b \ {s}, score + pieceSquareTable[piece_on(P, s)][s])
compute_psq_score(P) == SumPsq(P, pieces(P), 0)

\* Position::compute_non_pawn_material
compute_non_pawn_material(P, c) ==
    P.pieceCount[c][KNIGHT] * PieceValueMg(KNIGHT)
    + P.pieceCount[c][BISHOP] * PieceValueMg(BISHOP)
    + P.pieceCount[c][ROOK] * PieceValueMg(ROOK)
    + P.pieceCount[c][QUEEN] * PieceValueMg(QUEEN)

\* the character classes from_fen uses
PieceToChar == << "P", "N", "B", "R", "Q", "K", " ", " ", "p", "n", "b", "r", "q", "k" >>
DigitChars == << "0", "1", "2", "3", "4", "5", "6", "7", "8", "9" >>
LowerFiles == << "a", "b", "c", "d", "e", "f", "g", "h" >>
UpperFiles == << "A", "B", "C", "D", "E", "F", "G", "H" >>
IndexOf(seq, ch) ==
    IF \E i \in 1 .. Len(seq) : seq[i] = ch
    THEN CHOOSE i \in 1 .. Len(seq) : seq[i] = ch ELSE 0
isdigit(ch) == IndexOf(DigitChars, ch) # 0
DigitVal(ch) == IndexOf(DigitChars, ch) - 1
islower(ch) == ch \in { "p", "n", "b", "r", "q", "k", "w" } \/ IndexOf(LowerFiles, ch) # 0
toupper(ch) ==
    CASE ch = "k" -> "K"
      [] ch = "q" -> "Q"
      [] IndexOf(LowerFiles, ch) # 0 -> UpperFiles[IndexOf(LowerFiles, ch)]
      [] OTHER -> ch
CharAt(fen, i) == IF i <= Len(fen) THEN fen[i] ELSE " "

\* from_fen, 1: piece placement; yields the position and the cursor behind the
\* space that ends the field
RECURSIVE FenPlacement(_, _, _, _)
FenPlacement(P, fen, i, sq) ==
    LET token == CharAt(fen, i)
    IN CASE i > Len(fen) \/ token = " " -> [ pos |-> P, next |-> i + 1 ]
         [] isdigit(token) -> FenPlacement(P, fen, i + 1, sq + DigitVal(token))
         [] token = "/" -> FenPlacement(P, fen, i + 1, sq - 16)
         [] IndexOf(PieceToChar, token) # 0 ->
                FenPlacement(put_piece(P, IndexOf(PieceToChar, token), sq), fen, i + 1, sq + 1)
         [] OTHER -> FenPlacement(P, fen, i + 1, sq)

\* the scan for the outermost rook of a classical castling letter
RECURSIVE FenRookScan(_, _, _)
FenRookScan(P, rsq, step) ==
    IF rsq \notin Squares THEN SQ_NONE
    ELSE IF type_of(piece_on(P, rsq)) = ROOK THEN rsq
    ELSE FenRookScan(P, rsq + step, step)

\* from_fen, 3: castling availability
RECURSIVE FenCastling(_, _, _)
FenCastling(P, fen, i) ==
    LET raw == CharAt(fen, i)
        c == IF islower(raw) THEN BLACK ELSE WHITE
        token == toupper(raw)
        rsq == CASE token = "K" -> FenRookScan(P, relative_square(c, SQ_H1), -1)
                 [] token = "Q" -> FenRookScan(P, relative_square(c, SQ_A1), 1)
                 [] IndexOf(UpperFiles, token) # 0 ->
                        make_square(IndexOf(UpperFiles, token) - 1, relative_rank(c, 0))
                 [] OTHER -> SQ_NONE
    IN CASE i > Len(fen) \/ raw = " " -> [ pos |-> P, next |-> i + 1 ]
         [] rsq = SQ_NONE -> FenCastling(P, fen, i + 1)
         [] OTHER -> FenCastling(set_castle_right(P, c, rsq), fen, i + 1)

\* operator>> of an int with skipws: the value and the cursor behind it
RECURSIVE FenDigits(_, _, _)
FenDigits(fen, i, acc) ==
    IF i <= Len(fen) /\ isdigit(fen[i]) THEN FenDigits(fen, i + 1, 10 * acc + DigitVal(fen[i]))
    ELSE [ val |-> acc, next |-> i ]
RECURSIVE FenSkipWs(_, _)
FenSkipWs(fen, i) == IF i <= Len(fen) /\ fen[i] = " " THEN FenSkipWs(fen, i + 1) ELSE i
FenInt(fen, i) == FenDigits(fen, FenSkipWs(fen, i), 0)

\* from_fen, 2: active color; r is the result of the step before
FenSide(r, fen) ==
    [ pos |-> [ r.pos EXCEPT !.sideToMove = IF CharAt(fen, r.next) = "w" THEN WHITE ELSE BLACK ],
      next |-> r.next + 2 ]

\* FenEnPassant with one fault: the square is kept whether or not a pawn of
\* the side to move attacks it
FenEnPassant_NoAttackTest(r, fen) ==
    LET P == r.pos
        col == CharAt(fen, r.next)
        row == CharAt(fen, r.next + 1)
        hasCol == IndexOf(LowerFiles, col) # 0
        epsq == make_square(IndexOf(LowerFiles, col) - 1, DigitVal(row) - 1)
    IN [ pos |-> IF /\ hasCol /\ (row = "3" \/ row = "6")
                 THEN [ P EXCEPT !.mem[P.st].epSquare = epsq ]
                 ELSE P,
         next |-> IF hasCol THEN r.next + 2 ELSE r.next + 1 ]

\* from_fen, 4: en passant square, ignored if no pawn capture is possible
FenEnPassant(r, fen) ==
    LET P == r.pos
        col == CharAt(fen, r.next)
        row == CharAt(fen, r.next + 1)
        hasCol == IndexOf(LowerFiles, col) # 0
        epsq == make_square(IndexOf(LowerFiles, col) - 1, DigitVal(row) - 1)
    IN [ pos |-> IF /\ hasCol /\ (row = "3" \/ row = "6")
                    /\ (attackers_to(P, epsq, pieces(P)) \cap pieces_ct(P, P.sideToMove, PAWN)) # {}
                 THEN [ P EXCEPT !.mem[P.st].epSquare = epsq ]
                 ELSE P,
         next |-> IF hasCol THEN r.next + 2 ELSE r.next + 1 ]

\* the conversion to a game ply with one fault: the side to move is left out
FenFullmove_NoSide(P, n) ==
    [ P EXCEPT !.startPosPly = Max2(2 * (n.val - 1), 0) ]

\* from_fen, 5-6: halfmove clock and fullmove number, the latter converted
\* to a game ply
FenFullmove(P, n) ==
    [ P EXCEPT !.startPosPly = Max2(2 * (n.val - 1), 0)
                               + (IF P.sideToMove = BLACK THEN 1 ELSE 0) ]
FenHalfmove(P, fen, n) ==
    FenFullmove([ P EXCEPT !.mem[P.st].rule50 = n.val ], FenInt(fen, n.next))
FenCounters(r, fen) == FenHalfmove(r.pos, fen, FenInt(fen, r.next))

\* from_fen: the keys, the scores and the checkers computed from scratch
FenScratch(P, isChess960) ==
    [ P EXCEPT !.mem[P.st].key = compute_key(P),
               !.mem[P.st].pawnKey = compute_pawn_key(P),
               !.mem[P.st].materialKey = compute_material_key(P),
               !.mem[P.st].psqScore = compute_psq_score(P),
               !.mem[P.st].npMaterial = [ c \in Colors |-> compute_non_pawn_material(P, c) ],
               !.mem[P.st].checkersBB =
                   attackers_to(P, king_square(P, P.sideToMove), pieces(P))
                       \cap pieces_c(P, Opp(P.sideToMove)),
               !.chess960 = isChess960 ]

\* from_fen, 3: castling availability, from the cursor the step before left
FenCastlingField(r, fen) == FenCastling(r.pos, fen, r.next)

\* Position::from_fen
from_fen(fen, isChess960) ==
    FenScratch(
        FenCounters(
            FenEnPassant(
                FenCastlingField(FenSide(FenPlacement(clear, fen, 1, SQ_A8), fen), fen),
                fen),
            fen),
        isChess960)

\* C++ integer division, which truncates toward zero
TruncDiv(a, b) == IF a >= 0 THEN a \div b ELSE -((-a) \div b)

\* operator<< of a non-negative int
RECURSIVE IntToChars(_)
IntToChars(n) ==
    IF n < 10 THEN << DigitChars[n + 1] >>
    ELSE IntToChars(n \div 10) \o << DigitChars[(n % 10) + 1] >>

\* square_to_string
square_to_string(s) == << LowerFiles[file_of(s) + 1], DigitChars[rank_of(s) + 2] >>

\* to_fen: the squares of one rank from file on, emptyCnt empty squares pending
RECURSIVE FenRow(_, _, _, _)
FenRow(P, rank, file, emptyCnt) ==
    LET pending == IF emptyCnt > 0 THEN << DigitChars[emptyCnt + 1] >> ELSE << >>
    IN IF file > 7 THEN pending
       ELSE IF is_empty(P, make_square(file, rank)) THEN FenRow(P, rank, file + 1, emptyCnt + 1)
       ELSE pending \o << PieceToChar[piece_on(P, make_square(file, rank))] >>
                    \o FenRow(P, rank, file + 1, 0)

\* to_fen: the ranks from rank down to the first, separated by slashes
RECURSIVE FenRows(_, _)
FenRows(P, rank) ==
    FenRow(P, rank, 0, 0)
        \o (IF rank > 0 THEN << "/" >> \o FenRows(P, rank - 1) ELSE << >>)

\* to_fen: the letter of one castling right, nothing if the right is not held
FenCastleLetter(P, c, cs, letter) ==
    IF ~can_castle(P, make_castle_right(c, cs)) THEN << >>
    ELSE IF ~P.chess960 THEN << letter >>
    ELSE IF c = WHITE THEN << UpperFiles[file_of(castle_rook_square(P, c, cs)) + 1] >>
    ELSE << LowerFiles[file_of(castle_rook_square(P, c, cs)) + 1] >>

\* Position::to_fen
to_fen(P) ==
    FenRows(P, 7)
        \o (IF P.sideToMove = WHITE THEN << " ", "w", " " >> ELSE << " ", "b", " " >>)
        \o FenCastleLetter(P, WHITE, KING_SIDE, "K")
        \o FenCastleLetter(P, WHITE, QUEEN_SIDE, "Q")
        \o FenCastleLetter(P, BLACK, KING_SIDE, "k")
        \o FenCastleLetter(P, BLACK, QUEEN_SIDE, "q")
        \o (IF St(P).castleRights = {} THEN << "-" >> ELSE << >>)
        \o (IF ep_square(P) = SQ_NONE THEN << " ", "-", " " >>
            ELSE << " " >> \o square_to_string(ep_square(P)) \o << " " >>)
        \o IntToChars(St(P).rule50)
        \o << " " >>
        \o IntToChars(1 + TruncDiv(P.startPosPly - (IF P.sideToMove = BLACK THEN 1 ELSE 0), 2))

(***************************************************************************)
(* Position::do_move.  The running key k of the function is carried beside *)
(* the position in a record [pos, k]; L holds the locals computed at entry *)
(* (us, them, from, to, piece, pt, capture).                               *)
(***************************************************************************)
\* the bitwise XOR of two square numbers
RECURSIVE XorInt(_, _)
XorInt(a, b) ==
    IF a = 0 /\ b = 0 THEN 0
    ELSE ((a + b) % 2) + 2 * XorInt(a \div 2, b \div 2)

\* DoMoveEnter with one fault: rule50 is copied and not incremented
DoMoveEnter_KeepRule50(P, newSt) ==
    LET old == St(P)
        copied == [ P.mem[newSt] EXCEPT
                      !.pawnKey = old.pawnKey, !.materialKey = old.materialKey,
                      !.npMaterial = old.npMaterial, !.castleRights = old.castleRights,
                      !.rule50 = old.rule50, !.pliesFromNull = old.pliesFromNull + 1,
                      !.psqScore = old.psqScore, !.epSquare = old.epSquare,
                      !.previous = P.st ]
    IN [ pos |-> [ P EXCEPT !.nodes = @ + 1, !.mem[newSt] = copied, !.st = newSt ],
         k |-> Xor(old.key, Zobrist_side) ]
\* DoMoveEnter with one fault: the two ply counters are incremented in the
\* record that was current, before it is copied
DoMoveEnter_CountInPlace(P, newSt) ==
    LET old == St(P)
        copied == [ P.mem[newSt] EXCEPT
                      !.pawnKey = old.pawnKey, !.materialKey = old.materialKey,
                      !.npMaterial = old.npMaterial, !.castleRights = old.castleRights,
                      !.rule50 = old.rule50 + 1, !.pliesFromNull = old.pliesFromNull + 1,
                      !.psqScore = old.psqScore, !.epSquare = old.epSquare,
                      !.previous = P.st ]
    IN [ pos |-> [ P EXCEPT !.nodes = @ + 1,
                            !.mem[P.st].rule50 = @ + 1, !.mem[P.st].pliesFromNull = @ + 1,
                            !.mem[newSt] = copied, !.st = newSt ],
         k |-> Xor(old.key, Zobrist_side) ]
\* nodes++, the copy of the reduced prefix into newSt, the switch of st to it,
\* the side key and the two ply counters
DoMoveEnter(P, newSt) ==
    LET old == St(P)
        copied == [ P.mem[newSt] EXCEPT
                      !.pawnKey = old.pawnKey, !.materialKey = old.materialKey,
                      !.npMaterial = old.npMaterial, !.castleRights = old.castleRights,
                      !.rule50 = old.rule50 + 1, !.pliesFromNull = old.pliesFromNull + 1,
                      !.psqScore = old.psqScore, !.epSquare = old.epSquare,
                      !.previous = P.st ]
    IN [ pos |-> [ P EXCEPT !.nodes = @ + 1, !.mem[newSt] = copied, !.st = newSt ],
         k |-> Xor(old.key, Zobrist_side) ]

\* the locals of do_move
DoMoveLocals(P, m) ==
    LET from == from_sq(m)
        to == to_sq(m)
    IN [ us |-> P.sideToMove, them |-> Opp(P.sideToMove), from |-> from, to |-> to,
         piece |-> piece_on(P, from), pt |-> type_of(piece_on(P, from)),
         capture |-> IF move_type(m) = ENPASSANT THEN PAWN ELSE type_of(piece_on(P, to)) ]

\* DoMoveCapture with one fault: the material key is indexed by the count
\* before the capture
DoMoveCapture_OldCount(W, m, L) ==
    IF L.capture = NO_PIECE_TYPE THEN W
    ELSE
    LET P == W.pos
        them == L.them
        capture == L.capture
        isEp == capture = PAWN /\ move_type(m) = ENPASSANT
        capsq == IF isEp THEN L.to + pawn_push(them) ELSE L.to
        P1 == IF isEp THEN [ P EXCEPT !.board[capsq] = NO_PIECE ] ELSE P
        P2 == IF capture = PAWN
              THEN [ P1 EXCEPT !.mem[P.st].pawnKey = Xor(@, Zobrist_psq(them, PAWN, capsq)) ]
              ELSE [ P1 EXCEPT !.mem[P.st].npMaterial[them] = @ - PieceValueMg(capture) ]
        P3 == [ P2 EXCEPT !.byTypeBB[ALL_PIECES] = Xor(@, {capsq}),
                          !.byTypeBB[capture] = Xor(@, {capsq}),
                          !.byColorBB[them] = Xor(@, {capsq}) ]
        cnt == P3.pieceCount[them][capture] - 1
        lastSquare == P3.pieceList[them][capture][cnt]
        P4 == [ P3 EXCEPT !.pieceCount[them][capture] = cnt,
                          !.index[lastSquare] = P3.index[capsq] ]
        P5 == [ P4 EXCEPT !.pieceList[them][capture][P4.index[lastSquare]] = lastSquare ]
        P6 == [ P5 EXCEPT !.pieceList[them][capture][cnt] = SQ_NONE ]
        P7 == [ P6 EXCEPT
                  !.mem[P.st].materialKey = Xor(@, Zobrist_psq(them, capture, cnt + 1)),
                  !.mem[P.st].psqScore = @ - pieceSquareTable[make_piece(them, capture)][capsq],
                  !.mem[P.st].rule50 = 0 ]
    IN [ pos |-> P7, k |-> Xor(W.k, Zobrist_psq(them, capture, capsq)) ]

\* DoMoveCapture with one fault: the slot behind the shortened list keeps
\* its square
DoMoveCapture_NoSentinel(W, m, L) ==
    IF L.capture = NO_PIECE_TYPE THEN W
    ELSE
    LET P == W.pos
        them == L.them
        capture == L.capture
        isEp == capture = PAWN /\ move_type(m) = ENPASSANT
        capsq == IF isEp THEN L.to + pawn_push(them) ELSE L.to
        P1 == IF isEp THEN [ P EXCEPT !.board[capsq] = NO_PIECE ] ELSE P
        P2 == IF capture = PAWN
              THEN [ P1 EXCEPT !.mem[P.st].pawnKey = Xor(@, Zobrist_psq(them, PAWN, capsq)) ]
              ELSE [ P1 EXCEPT !.mem[P.st].npMaterial[them] = @ - PieceValueMg(capture) ]
        P3 == [ P2 EXCEPT !.byTypeBB[ALL_PIECES] = Xor(@, {capsq}),
                          !.byTypeBB[capture] = Xor(@, {capsq}),
                          !.byColorBB[them] = Xor(@, {capsq}) ]
        cnt == P3.pieceCount[them][capture] - 1
        lastSquare == P3.pieceList[them][capture][cnt]
        P4 == [ P3 EXCEPT !.pieceCount[them][capture] = cnt,
                          !.index[lastSquare] = P3.index[capsq] ]
        P5 == [ P4 EXCEPT !.pieceList[them][capture][P4.index[lastSquare]] = lastSquare ]
        P6 == P5
        P7 == [ P6 EXCEPT
                  !.mem[P.st].materialKey = Xor(@, Zobrist_psq(them, capture, cnt)),
                  !.mem[P.st].psqScore = @ - pieceSquareTable[make_piece(them, capture)][capsq],
                  !.mem[P.st].rule50 = 0 ]
    IN [ pos |-> P7, k |-> Xor(W.k, Zobrist_psq(them, capture, capsq)) ]

\* the removal of the captured piece
DoMoveCapture(W, m, L) ==
    IF L.capture = NO_PIECE_TYPE THEN W
    ELSE
    LET P == W.pos
        them == L.them
        capture == L.capture
        isEp == capture = PAWN /\ move_type(m) = ENPASSANT
        capsq == IF isEp THEN L.to + pawn_push(them) ELSE L.to
        P1 == IF isEp THEN [ P EXCEPT !.board[capsq] = NO_PIECE ] ELSE P
        P2 == IF capture = PAWN
              THEN [ P1 EXCEPT !.mem[P.st].pawnKey = Xor(@, Zobrist_psq(them, PAWN, capsq)) ]
              ELSE [ P1 EXCEPT !.mem[P.st].npMaterial[them] = @ - PieceValueMg(capture) ]
        P3 == [ P2 EXCEPT !.byTypeBB[ALL_PIECES] = Xor(@, {capsq}),
                          !.byTypeBB[capture] = Xor(@, {capsq}),
                          !.byColorBB[them] = Xor(@, {capsq}) ]
        cnt == P3.pieceCount[them][capture] - 1
        lastSquare == P3.pieceList[them][capture][cnt]
        P4 == [ P3 EXCEPT !.pieceCount[them][capture] = cnt,
                          !.index[lastSquare] = P3.index[capsq] ]
        P5 == [ P4 EXCEPT !.pieceList[them][capture][P4.index[lastSquare]] = lastSquare ]
        P6 == [ P5 EXCEPT !.pieceList[them][capture][cnt] = SQ_NONE ]
        P7 == [ P6 EXCEPT
                  !.mem[P.st].materialKey = Xor(@, Zobrist_psq(them, capture, cnt)),
                  !.mem[P.st].psqScore = @ - pieceSquareTable[make_piece(them, capture)][capsq],
                  !.mem[P.st].rule50 = 0 ]
    IN [ pos |-> P7, k |-> Xor(W.k, Zobrist_psq(them, capture, capsq)) ]

\* DoMoveKeyRights with one fault: the key keeps the castle rights the move
\* has cleared
DoMoveKeyRights_KeepCastleKey(W, m, L) ==
    LET P == W.pos
        k1 == Xor(W.k, Xor(Zobrist_psq(L.us, L.pt, L.from), Zobrist_psq(L.us, L.pt, L.to)))
        hasEp == St(P).epSquare # SQ_NONE
        k2 == IF hasEp THEN Xor(k1, Zobrist_enpassant(file_of(St(P).epSquare))) ELSE k1
        P2 == IF hasEp THEN [ P EXCEPT !.mem[P.st].epSquare = SQ_NONE ] ELSE P
        cr == P.castleRightsMask[L.from] \cup P.castleRightsMask[L.to]
        touch == St(P2).castleRights # {} /\ cr # {}
        k3 == k2
        P3 == IF touch THEN [ P2 EXCEPT !.mem[P.st].castleRights = @ \ cr ] ELSE P2
    IN [ pos |-> P3, k |-> k3 ]

\* DoMoveKeyRights with one fault: only the origin of the move is looked up
\* in castleRightsMask, so that a captured rook keeps its right
DoMoveKeyRights_FromOnly(W, m, L) ==
    LET P == W.pos
        k1 == Xor(W.k, Xor(Zobrist_psq(L.us, L.pt, L.from), Zobrist_psq(L.us, L.pt, L.to)))
        hasEp == St(P).epSquare # SQ_NONE
        k2 == IF hasEp THEN Xor(k1, Zobrist_enpassant(file_of(St(P).epSquare))) ELSE k1
        P2 == IF hasEp THEN [ P EXCEPT !.mem[P.st].epSquare = SQ_NONE ] ELSE P
        cr == P.castleRightsMask[L.from]
        touch == St(P2).castleRights # {} /\ cr # {}
        k3 == IF touch THEN Xor(k2, Zobrist_castle[St(P2).castleRights \cap cr]) ELSE k2
        P3 == IF touch THEN [ P2 EXCEPT !.mem[P.st].castleRights = @ \ cr ] ELSE P2
    IN [ pos |-> P3, k |-> k3 ]
\* DoMoveKeyRights with one fault: the en passant square is not reset
DoMoveKeyRights_KeepEp(W, m, L) ==
    LET P == W.pos
        k1 == Xor(W.k, Xor(Zobrist_psq(L.us, L.pt, L.from), Zobrist_psq(L.us, L.pt, L.to)))
        cr == P.castleRightsMask[L.from] \cup P.castleRightsMask[L.to]
        touch == St(P).castleRights # {} /\ cr # {}
        k3 == IF touch THEN Xor(k1, Zobrist_castle[St(P).castleRights \cap cr]) ELSE k1
        P3 == IF touch THEN [ P EXCEPT !.mem[P.st].castleRights = @ \ cr ] ELSE P
    IN [ pos |-> P3, k |-> k3 ]
\* the key of the moving piece, the reset of the en passant square and the
\* update of the castle rights
DoMoveKeyRights(W, m, L) ==
    LET P == W.pos
        k1 == Xor(W.k, Xor(Zobrist_psq(L.us, L.pt, L.from), Zobrist_psq(L.us, L.pt, L.to)))
        hasEp == St(P).epSquare # SQ_NONE
        k2 == IF hasEp THEN Xor(k1, Zobrist_enpassant(file_of(St(P).epSquare))) ELSE k1
        P2 == IF hasEp THEN [ P EXCEPT !.mem[P.st].epSquare = SQ_NONE ] ELSE P
        cr == P.castleRightsMask[L.from] \cup P.castleRightsMask[L.to]
        touch == St(P2).castleRights # {} /\ cr # {}
        k3 == IF touch THEN Xor(k2, Zobrist_castle[St(P2).castleRights \cap cr]) ELSE k2
        P3 == IF touch THEN [ P2 EXCEPT !.mem[P.st].castleRights = @ \ cr ] ELSE P2
    IN [ pos |-> P3, k |-> k3 ]

\* DoMovePiece with one fault: the bitboard of all pieces is not updated
DoMovePiece_KeepOccupied(W, m, L) ==
    LET P == W.pos
        from_to_bb == Xor({L.from}, {L.to})
        P1 == [ P EXCEPT !.byTypeBB[L.pt] = Xor(@, from_to_bb),
                         !.byColorBB[L.us] = Xor(@, from_to_bb) ]
        P2 == [ P1 EXCEPT !.board[L.to] = P1.board[L.from] ]
        P3 == [ P2 EXCEPT !.board[L.from] = NO_PIECE, !.index[L.to] = P2.index[L.from] ]
        P4 == [ P3 EXCEPT !.pieceList[L.us][L.pt][P3.index[L.to]] = L.to ]
    IN [ pos |-> P4, k |-> W.k ]

\* the move of the piece on the bitboards, the board and the piece list
DoMovePiece(W, m, L) ==
    LET P == W.pos
        from_to_bb == Xor({L.from}, {L.to})
        P1 == [ P EXCEPT !.byTypeBB[ALL_PIECES] = Xor(@, from_to_bb),
                         !.byTypeBB[L.pt] = Xor(@, from_to_bb),
                         !.byColorBB[L.us] = Xor(@, from_to_bb) ]
        P2 == [ P1 EXCEPT !.board[L.to] = P1.board[L.from] ]
        P3 == [ P2 EXCEPT !.board[L.from] = NO_PIECE, !.index[L.to] = P2.index[L.from] ]
        P4 == [ P3 EXCEPT !.pieceList[L.us][L.pt][P3.index[L.to]] = L.to ]
    IN [ pos |-> P4, k |-> W.k ]

\* DoMovePromotion with one fault: the promoted piece is not added to the
\* non-pawn material
DoMovePromotion_KeepMaterial(W, m, L) ==
    LET P == W.pos
        us == L.us
        to == L.to
        promotion == promotion_type(m)
        P1 == [ P EXCEPT !.byTypeBB[PAWN] = Xor(@, {to}),
                         !.byTypeBB[promotion] = @ \cup {to},
                         !.board[to] = make_piece(us, promotion) ]
        cnt == P1.pieceCount[us][PAWN] - 1
        lastSquare == P1.pieceList[us][PAWN][cnt]
        P2 == [ P1 EXCEPT !.pieceCount[us][PAWN] = cnt,
                          !.index[lastSquare] = P1.index[to] ]
        P3 == [ P2 EXCEPT !.pieceList[us][PAWN][P2.index[lastSquare]] = lastSquare ]
        P4 == [ P3 EXCEPT !.pieceList[us][PAWN][cnt] = SQ_NONE,
                          !.index[to] = P3.pieceCount[us][promotion] ]
        P5 == [ P4 EXCEPT !.pieceList[us][promotion][P4.index[to]] = to ]
        pcnt == P5.pieceCount[us][promotion]
        P6 == [ P5 EXCEPT
                  !.pieceCount[us][promotion] = pcnt + 1,
                  !.mem[P.st].pawnKey = Xor(@, Zobrist_psq(us, PAWN, to)),
                  !.mem[P.st].materialKey =
                      Xor(@, Xor(Zobrist_psq(us, promotion, pcnt), Zobrist_psq(us, PAWN, cnt))),
                  !.mem[P.st].psqScore = @ + pieceSquareTable[make_piece(us, promotion)][to]
                                           - pieceSquareTable[make_piece(us, PAWN)][to] ]
    IN [ pos |-> P6,
         k |-> Xor(W.k, Xor(Zobrist_psq(us, PAWN, to), Zobrist_psq(us, promotion, to))) ]

\* the replacement of the pawn by the promoted piece
DoMovePromotion(W, m, L) ==
    LET P == W.pos
        us == L.us
        to == L.to
        promotion == promotion_type(m)
        P1 == [ P EXCEPT !.byTypeBB[PAWN] = Xor(@, {to}),
                         !.byTypeBB[promotion] = @ \cup {to},
                         !.board[to] = make_piece(us, promotion) ]
        cnt == P1.pieceCount[us][PAWN] - 1
        lastSquare == P1.pieceList[us][PAWN][cnt]
        P2 == [ P1 EXCEPT !.pieceCount[us][PAWN] = cnt,
                          !.index[lastSquare] = P1.index[to] ]
        P3 == [ P2 EXCEPT !.pieceList[us][PAWN][P2.index[lastSquare]] = lastSquare ]
        P4 == [ P3 EXCEPT !.pieceList[us][PAWN][cnt] = SQ_NONE,
                          !.index[to] = P3.pieceCount[us][promotion] ]
        P5 == [ P4 EXCEPT !.pieceList[us][promotion][P4.index[to]] = to ]
        pcnt == P5.pieceCount[us][promotion]
        P6 == [ P5 EXCEPT
                  !.pieceCount[us][promotion] = pcnt + 1,
                  !.mem[P.st].pawnKey = Xor(@, Zobrist_psq(us, PAWN, to)),
                  !.mem[P.st].materialKey =
                      Xor(@, Xor(Zobrist_psq(us, promotion, pcnt), Zobrist_psq(us, PAWN, cnt))),
                  !.mem[P.st].psqScore = @ + pieceSquareTable[make_piece(us, promotion)][to]
                                           - pieceSquareTable[make_piece(us, PAWN)][to],
                  !.mem[P.st].npMaterial[us] = @ + PieceValueMg(promotion) ]
    IN [ pos |-> P6,
         k |-> Xor(W.k, Xor(Zobrist_psq(us, PAWN, to), Zobrist_psq(us, promotion, to))) ]

\* DoMovePawn with one fault: the en passant square is set after every double
\* push, capturable or not
DoMovePawn_AlwaysEp(W, m, L) ==
    IF L.pt # PAWN THEN W
    ELSE
    LET P == W.pos
        setEp == XorInt(L.to, L.from) = 16
        epsq == (L.from + L.to) \div 2
        W1 == IF setEp
              THEN [ pos |-> [ P EXCEPT !.mem[P.st].epSquare = epsq ],
                     k |-> Xor(W.k, Zobrist_enpassant(file_of(epsq))) ]
              ELSE W
        W2 == IF move_type(m) = PROMOTION THEN DoMovePromotion(W1, m, L) ELSE W1
    IN [ pos |-> [ W2.pos EXCEPT
                     !.mem[P.st].pawnKey =
                         Xor(@, Xor(Zobrist_psq(L.us, PAWN, L.from), Zobrist_psq(L.us, PAWN, L.to))),
                     !.mem[P.st].rule50 = 0 ],
         k |-> W2.k ]

\* the extra work for a pawn move: the new en passant square, the promotion,
\* the pawn key and the reset of rule50
DoMovePawn(W, m, L) ==
    IF L.pt # PAWN THEN W
    ELSE
    LET P == W.pos
        setEp == /\ XorInt(L.to, L.from) = 16
                 /\ (attacks_from_pawn(L.from + pawn_push(L.us), L.us)
                        \cap pieces_ct(P, L.them, PAWN)) # {}
        epsq == (L.from + L.to) \div 2
        W1 == IF setEp
              THEN [ pos |-> [ P EXCEPT !.mem[P.st].epSquare = epsq ],
                     k |-> Xor(W.k, Zobrist_enpassant(file_of(epsq))) ]
              ELSE W
        W2 == IF move_type(m) = PROMOTION THEN DoMovePromotion(W1, m, L) ELSE W1
    IN [ pos |-> [ W2.pos EXCEPT
                     !.mem[P.st].pawnKey =
                         Xor(@, Xor(Zobrist_psq(L.us, PAWN, L.from), Zobrist_psq(L.us, PAWN, L.to))),
                     !.mem[P.st].rule50 = 0 ],
         k |-> W2.k ]

\* DoMoveCheckers with one fault: a Normal move's discovered checks are left out
DoMoveCheckers_DirectOnly(P, m, L, ci, moveIsCheck) ==
    IF ~moveIsCheck THEN {}
    ELSE IF move_type(m) # NORMAL
    THEN attackers_to(P, king_square(P, L.them), pieces(P)) \cap pieces_c(P, L.us)
    ELSE
    LET direct == IF L.to \in ci.checkSq[L.pt] THEN {L.to} ELSE {}
        isDc == ci.dcCandidates # {} /\ L.from \in ci.dcCandidates
        byRook == IF isDc /\ L.pt # ROOK
                  THEN attacks_from_t(P, ROOK, king_square(P, L.them))
                       \cap pieces_ctt(P, L.us, QUEEN, ROOK)
                  ELSE {}
        byBishop == IF isDc /\ L.pt # BISHOP
                    THEN attacks_from_t(P, BISHOP, king_square(P, L.them))
                         \cap pieces_ctt(P, L.us, QUEEN, BISHOP)
                    ELSE {}
    IN direct

\* the checkers bitboard of the position after the move
DoMoveCheckers(P, m, L, ci, moveIsCheck) ==
    IF ~moveIsCheck THEN {}
    ELSE IF move_type(m) # NORMAL
    THEN attackers_to(P, king_square(P, L.them), pieces(P)) \cap pieces_c(P, L.us)
    ELSE
    LET direct == IF L.to \in ci.checkSq[L.pt] THEN {L.to} ELSE {}
        isDc == ci.dcCandidates # {} /\ L.from \in ci.dcCandidates
        byRook == IF isDc /\ L.pt # ROOK
                  THEN attacks_from_t(P, ROOK, king_square(P, L.them))
                       \cap pieces_ctt(P, L.us, QUEEN, ROOK)
                  ELSE {}
        byBishop == IF isDc /\ L.pt # BISHOP
                    THEN attacks_from_t(P, BISHOP, king_square(P, L.them))
                         \cap pieces_ctt(P, L.us, QUEEN, BISHOP)
                    ELSE {}
    IN direct \cup byRook \cup byBishop

\* the incremental score, the captured type, the key, the checkers and the
\* side to move
DoMoveFinish(W, m, L, ci, moveIsCheck) ==
    LET P == W.pos
    IN [ P EXCEPT !.mem[P.st].psqScore = @ + psq_delta(L.piece, L.from, L.to),
                  !.mem[P.st].capturedType = L.capture,
                  !.mem[P.st].key = W.k,
                  !.mem[P.st].checkersBB = DoMoveCheckers(P, m, L, ci, moveIsCheck),
                  !.sideToMove = Opp(P.sideToMove) ]

\* Position::do_castle_move<Do>: the squares of king and rook before and after
CastleSquares(P, m, Do) ==
    LET us == P.sideToMove
        kBefore == from_sq(m)
        rBefore == to_sq(m)
        kAfter == relative_square(us, IF rBefore > kBefore THEN SQ_G1 ELSE SQ_C1)
        rAfter == relative_square(us, IF rBefore > kBefore THEN SQ_F1 ELSE SQ_D1)
    IN [ us |-> us,
         kfrom |-> IF Do THEN kBefore ELSE kAfter, rfrom |-> IF Do THEN rBefore ELSE rAfter,
         kto |-> IF Do THEN kAfter ELSE kBefore, rto |-> IF Do THEN rAfter ELSE rBefore ]

\* CastlePieces with one fault: the index of the rook is read after the
\* index of the king's destination is written
CastlePieces_NoTmp(P, C) ==
    LET us == C.us
        k_from_to_bb == Xor({C.kfrom}, {C.kto})
        r_from_to_bb == Xor({C.rfrom}, {C.rto})
        P1 == [ P EXCEPT !.byTypeBB[KING] = Xor(@, k_from_to_bb),
                         !.byTypeBB[ROOK] = Xor(@, r_from_to_bb),
                         !.byTypeBB[ALL_PIECES] = Xor(@, Xor(k_from_to_bb, r_from_to_bb)),
                         !.byColorBB[us] = Xor(@, Xor(k_from_to_bb, r_from_to_bb)) ]
        P2 == [ P1 EXCEPT !.board[C.rfrom] = NO_PIECE ]
        P3 == [ P2 EXCEPT !.board[C.kfrom] = NO_PIECE ]
        P4 == [ P3 EXCEPT !.board[C.kto] = make_piece(us, KING) ]
        P5 == [ P4 EXCEPT !.board[C.rto] = make_piece(us, ROOK) ]
        P6 == [ P5 EXCEPT !.pieceList[us][KING][P5.index[C.kfrom]] = C.kto ]
        P7 == [ P6 EXCEPT !.pieceList[us][ROOK][P6.index[C.rfrom]] = C.rto ]
        P8 == [ P7 EXCEPT !.index[C.kto] = P7.index[C.kfrom] ]
    IN [ P8 EXCEPT !.index[C.rto] = P8.index[C.rfrom] ]

\* Position::do_castle_move<Do>: king and rook on the bitboards, the board,
\* the piece lists and the index
CastlePieces(P, C) ==
    LET us == C.us
        k_from_to_bb == Xor({C.kfrom}, {C.kto})
        r_from_to_bb == Xor({C.rfrom}, {C.rto})
        P1 == [ P EXCEPT !.byTypeBB[KING] = Xor(@, k_from_to_bb),
                         !.byTypeBB[ROOK] = Xor(@, r_from_to_bb),
                         !.byTypeBB[ALL_PIECES] = Xor(@, Xor(k_from_to_bb, r_from_to_bb)),
                         !.byColorBB[us] = Xor(@, Xor(k_from_to_bb, r_from_to_bb)) ]
        P2 == [ P1 EXCEPT !.board[C.rfrom] = NO_PIECE ]
        P3 == [ P2 EXCEPT !.board[C.kfrom] = NO_PIECE ]
        P4 == [ P3 EXCEPT !.board[C.kto] = make_piece(us, KING) ]
        P5 == [ P4 EXCEPT !.board[C.rto] = make_piece(us, ROOK) ]
        P6 == [ P5 EXCEPT !.pieceList[us][KING][P5.index[C.kfrom]] = C.kto ]
        P7 == [ P6 EXCEPT !.pieceList[us][ROOK][P6.index[C.rfrom]] = C.rto ]
        tmp == P7.index[C.rfrom]
        P8 == [ P7 EXCEPT !.index[C.kto] = P7.index[C.kfrom] ]
    IN [ P8 EXCEPT !.index[C.rto] = tmp ]

\* CastleState with one fault: only the right of the castling rook is cleared
CastleState_OneRight(P, C) ==
    LET us == C.us
        king == make_piece(us, KING)
        rook == make_piece(us, ROOK)
        s0 == St(P)
        k1 == Xor(s0.key, Xor(Zobrist_psq(us, KING, C.kfrom), Zobrist_psq(us, KING, C.kto)))
        k2 == Xor(k1, Xor(Zobrist_psq(us, ROOK, C.rfrom), Zobrist_psq(us, ROOK, C.rto)))
        k3 == IF s0.epSquare # SQ_NONE
              THEN Xor(k2, Zobrist_enpassant(file_of(s0.epSquare))) ELSE k2
        k4 == Xor(k3, Zobrist_castle[s0.castleRights \cap P.castleRightsMask[C.rfrom]])
    IN [ P EXCEPT
           !.mem[P.st].capturedType = NO_PIECE_TYPE,
           !.mem[P.st].psqScore = @ + psq_delta(king, C.kfrom, C.kto)
                                    + psq_delta(rook, C.rfrom, C.rto),
           !.mem[P.st].key = k4,
           !.mem[P.st].epSquare = SQ_NONE,
           !.mem[P.st].castleRights = @ \ P.castleRightsMask[C.rfrom],
           !.mem[P.st].checkersBB =
               attackers_to(P, king_square(P, Opp(us)), pieces(P)) \cap pieces_c(P, us),
           !.sideToMove = Opp(P.sideToMove) ]

\* Position::do_castle_move<true>: the score, the key, the en passant square,
\* the castle rights, the checkers and the side to move
CastleState(P, C) ==
    LET us == C.us
        king == make_piece(us, KING)
        rook == make_piece(us, ROOK)
        s0 == St(P)
        k1 == Xor(s0.key, Xor(Zobrist_psq(us, KING, C.kfrom), Zobrist_psq(us, KING, C.kto)))
        k2 == Xor(k1, Xor(Zobrist_psq(us, ROOK, C.rfrom), Zobrist_psq(us, ROOK, C.rto)))
        k3 == IF s0.epSquare # SQ_NONE
              THEN Xor(k2, Zobrist_enpassant(file_of(s0.epSquare))) ELSE k2
        k4 == Xor(k3, Zobrist_castle[s0.castleRights \cap P.castleRightsMask[C.kfrom]])
    IN [ P EXCEPT
           !.mem[P.st].capturedType = NO_PIECE_TYPE,
           !.mem[P.st].psqScore = @ + psq_delta(king, C.kfrom, C.kto)
                                    + psq_delta(rook, C.rfrom, C.rto),
           !.mem[P.st].key = k4,
           !.mem[P.st].epSquare = SQ_NONE,
           !.mem[P.st].castleRights = @ \ P.castleRightsMask[C.kfrom],
           !.mem[P.st].checkersBB =
               attackers_to(P, king_square(P, Opp(us)), pieces(P)) \cap pieces_c(P, us),
           !.sideToMove = Opp(P.sideToMove) ]

\* Position::do_castle_move<Do>
do_castle_move(P, m, Do) ==
    LET C == CastleSquares(P, m, Do)
        P1 == CastlePieces(P, C)
    IN IF Do THEN CastleState(P1, C)
       ELSE [ P1 EXCEPT !.st = St(P1).previous ]

\* Position::do_move(Move, StateInfo&, const CheckInfo&, bool)
do_move_ci(P, m, newSt, ci, moveIsCheck) ==
    LET W0 == DoMoveEnter(P, newSt)
        L == DoMoveLocals(P, m)
    IN IF move_type(m) = CASTLE
       THEN do_castle_move([ W0.pos EXCEPT !.mem[newSt].key = W0.k ], m, TRUE)
       ELSE DoMoveFinish(
                DoMovePawn(DoMovePiece(DoMoveKeyRights(DoMoveCapture(W0, m, L), m, L), m, L),
                           m, L),
                m, L, ci, moveIsCheck)

\* move_gives_check with one fault: the check uncovered by the two pawns an
\* en passant capture takes off a line is not seen
move_gives_check_NoEp(P, m, ci) ==
    LET from == from_sq(m)
        to == to_sq(m)
        pt == type_of(piece_on(P, from))
        us == P.sideToMove
        ksq == king_square(P, Opp(us))
    IN
    IF to \in ci.checkSq[pt] THEN TRUE
    ELSE IF /\ ci.dcCandidates # {} /\ from \in ci.dcCandidates
            /\ ((pt # PAWN /\ pt # KING) \/ ~squares_aligned(from, to, ksq))
    THEN TRUE
    ELSE CASE move_type(m) = NORMAL -> FALSE
           [] move_type(m) = PROMOTION ->
                ksq \in attacks_from(promotion_type(m), to, Xor(pieces(P), {from}))
           [] move_type(m) = ENPASSANT ->
                FALSE
           [] OTHER ->
                LET kfrom == from
                    rfrom == to
                    kto == relative_square(us, IF rfrom > kfrom THEN SQ_G1 ELSE SQ_C1)
                    rto == relative_square(us, IF rfrom > kfrom THEN SQ_F1 ELSE SQ_D1)
                    b == Xor(Xor(pieces(P), {kfrom}), {rfrom}) \cup {rto} \cup {kto}
                IN ksq \in attacks_bb(ROOK, rto, b)

\* Position::move_gives_check
move_gives_check(P, m, ci) ==
    LET from == from_sq(m)
        to == to_sq(m)
        pt == type_of(piece_on(P, from))
        us == P.sideToMove
        ksq == king_square(P, Opp(us))
    IN
    IF to \in ci.checkSq[pt] THEN TRUE
    ELSE IF /\ ci.dcCandidates # {} /\ from \in ci.dcCandidates
            /\ ((pt # PAWN /\ pt # KING) \/ ~squares_aligned(from, to, ksq))
    THEN TRUE
    ELSE CASE move_type(m) = NORMAL -> FALSE
           [] move_type(m) = PROMOTION ->
                ksq \in attacks_from(promotion_type(m), to, Xor(pieces(P), {from}))
           [] move_type(m) = ENPASSANT ->
                LET capsq == make_square(file_of(to), rank_of(from))
                    b == Xor(Xor(pieces(P), {from}), {capsq}) \cup {to}
                IN ((attacks_bb(ROOK, ksq, b) \cap pieces_ctt(P, us, QUEEN, ROOK))
                    \cup (attacks_bb(BISHOP, ksq, b) \cap pieces_ctt(P, us, QUEEN, BISHOP))) # {}
           [] OTHER ->
                LET kfrom == from
                    rfrom == to
                    kto == relative_square(us, IF rfrom > kfrom THEN SQ_G1 ELSE SQ_C1)
                    rto == relative_square(us, IF rfrom > kfrom THEN SQ_F1 ELSE SQ_D1)
                    b == Xor(Xor(pieces(P), {kfrom}), {rfrom}) \cup {rto} \cup {kto}
                IN ksq \in attacks_bb(ROOK, rto, b)

\* Position::do_move(Move, StateInfo&)
do_move(P, m, newSt) ==
    LET ci == CheckInfo(P)
    IN do_move_ci(P, m, newSt, ci, move_gives_check(P, m, ci))

\* Position::undo_move: the promoted piece becomes a pawn again
UndoPromotion(P, m, us) ==
    LET to == to_sq(m)
        promotion == promotion_type(m)
        P1 == [ P EXCEPT !.byTypeBB[promotion] = Xor(@, {to}),
                         !.byTypeBB[PAWN] = @ \cup {to},
                         !.board[to] = make_piece(us, PAWN) ]
        cnt == P1.pieceCount[us][promotion] - 1
        lastSquare == P1.pieceList[us][promotion][cnt]
        P2 == [ P1 EXCEPT !.pieceCount[us][promotion] = cnt,
                          !.index[lastSquare] = P1.index[to] ]
        P3 == [ P2 EXCEPT !.pieceList[us][promotion][P2.index[lastSquare]] = lastSquare ]
        P4 == [ P3 EXCEPT !.pieceList[us][promotion][cnt] = SQ_NONE,
                          !.index[to] = P3.pieceCount[us][PAWN],
                          !.pieceCount[us][PAWN] = @ + 1 ]
    IN [ P4 EXCEPT !.pieceList[us][PAWN][P4.index[to]] = to ]

\* UndoPiece with one fault: the destination square of the board array is
\* not emptied
UndoPiece_KeepBoard(P, m, us, pt) ==
    LET from == from_sq(m)
        to == to_sq(m)
        from_to_bb == Xor({from}, {to})
        P1 == [ P EXCEPT !.byTypeBB[ALL_PIECES] = Xor(@, from_to_bb),
                         !.byTypeBB[pt] = Xor(@, from_to_bb),
                         !.byColorBB[us] = Xor(@, from_to_bb) ]
        P2 == [ P1 EXCEPT !.board[from] = P1.board[to] ]
        P3 == [ P2 EXCEPT !.index[from] = P2.index[to] ]
    IN [ P3 EXCEPT !.pieceList[us][pt][P3.index[from]] = from ]
\* Position::undo_move: the piece goes back to its origin
UndoPiece(P, m, us, pt) ==
    LET from == from_sq(m)
        to == to_sq(m)
        from_to_bb == Xor({from}, {to})
        P1 == [ P EXCEPT !.byTypeBB[ALL_PIECES] = Xor(@, from_to_bb),
                         !.byTypeBB[pt] = Xor(@, from_to_bb),
                         !.byColorBB[us] = Xor(@, from_to_bb) ]
        P2 == [ P1 EXCEPT !.board[from] = P1.board[to] ]
        P3 == [ P2 EXCEPT !.board[to] = NO_PIECE, !.index[from] = P2.index[to] ]
    IN [ P3 EXCEPT !.pieceList[us][pt][P3.index[from]] = from ]

\* UndoCapture with one fault: the captured piece always comes back on the
\* destination square, an en passant victim too
UndoCapture_OnTo(P, m, us, capture) ==
    IF capture = NO_PIECE_TYPE THEN P
    ELSE
    LET them == Opp(us)
        capsq == to_sq(m)
        P1 == [ P EXCEPT !.byTypeBB[ALL_PIECES] = @ \cup {capsq},
                         !.byTypeBB[capture] = @ \cup {capsq},
                         !.byColorBB[them] = @ \cup {capsq},
                         !.board[capsq] = make_piece(them, capture),
                         !.index[capsq] = P.pieceCount[them][capture],
                         !.pieceCount[them][capture] = @ + 1 ]
    IN [ P1 EXCEPT !.pieceList[them][capture][P1.index[capsq]] = capsq ]

\* Position::undo_move: the captured piece comes back
UndoCapture(P, m, us, capture) ==
    IF capture = NO_PIECE_TYPE THEN P
    ELSE
    LET them == Opp(us)
        capsq == IF move_type(m) = ENPASSANT THEN to_sq(m) - pawn_push(us) ELSE to_sq(m)
        P1 == [ P EXCEPT !.byTypeBB[ALL_PIECES] = @ \cup {capsq},
                         !.byTypeBB[capture] = @ \cup {capsq},
                         !.byColorBB[them] = @ \cup {capsq},
                         !.board[capsq] = make_piece(them, capture),
                         !.index[capsq] = P.pieceCount[them][capture],
                         !.pieceCount[them][capture] = @ + 1 ]
    IN [ P1 EXCEPT !.pieceList[them][capture][P1.index[capsq]] = capsq ]

\* Position::undo_move
undo_move(P, m) ==
    LET Q == [ P EXCEPT !.sideToMove = Opp(P.sideToMove) ]
        us == Q.sideToMove
        isPromo == move_type(m) = PROMOTION
        pt == IF isPromo THEN PAWN ELSE type_of(piece_on(Q, to_sq(m)))
        capture == St(Q).capturedType
        Q1 == IF isPromo THEN UndoPromotion(Q, m, us) ELSE Q
        Q2 == UndoCapture(UndoPiece(Q1, m, us, pt), m, us, capture)
    IN IF move_type(m) = CASTLE THEN do_castle_move(Q, m, FALSE)
       ELSE [ Q2 EXCEPT !.st = St(Q2).previous ]

\* do_null_move with one fault: the key keeps the en passant file
do_null_move_KeepEpKey(P, backupSt, Do) ==
    LET src == IF Do THEN P.st ELSE backupSt
        dst == IF Do THEN backupSt ELSE P.st
        P1 == [ P EXCEPT !.mem[dst].key = P.mem[src].key,
                         !.mem[dst].epSquare = P.mem[src].epSquare,
                         !.mem[dst].psqScore = P.mem[src].psqScore,
                         !.mem[dst].rule50 = P.mem[src].rule50,
                         !.mem[dst].pliesFromNull = P.mem[src].pliesFromNull,
                         !.sideToMove = Opp(P.sideToMove) ]
        s1 == St(P1)
        k1 == s1.key
    IN IF Do
       THEN [ P1 EXCEPT !.mem[P.st].key = Xor(k1, Zobrist_side),
                        !.mem[P.st].epSquare = SQ_NONE,
                        !.mem[P.st].rule50 = @ + 1,
                        !.mem[P.st].pliesFromNull = 0 ]
       ELSE P1

\* do_null_move with one fault: pliesFromNull is not set back to zero
do_null_move_KeepPlies(P, backupSt, Do) ==
    LET src == IF Do THEN P.st ELSE backupSt
        dst == IF Do THEN backupSt ELSE P.st
        P1 == [ P EXCEPT !.mem[dst].key = P.mem[src].key,
                         !.mem[dst].epSquare = P.mem[src].epSquare,
                         !.mem[dst].psqScore = P.mem[src].psqScore,
                         !.mem[dst].rule50 = P.mem[src].rule50,
                         !.mem[dst].pliesFromNull = P.mem[src].pliesFromNull,
                         !.sideToMove = Opp(P.sideToMove) ]
        s1 == St(P1)
        k1 == IF s1.epSquare # SQ_NONE
              THEN Xor(s1.key, Zobrist_enpassant(file_of(s1.epSquare))) ELSE s1.key
    IN IF Do
       THEN [ P1 EXCEPT !.mem[P.st].key = Xor(k1, Zobrist_side),
                        !.mem[P.st].epSquare = SQ_NONE,
                        !.mem[P.st].rule50 = @ + 1 ]
       ELSE P1
\* Position::do_null_move<Do>
do_null_move(P, backupSt, Do) ==
    LET src == IF Do THEN P.st ELSE backupSt
        dst == IF Do THEN backupSt ELSE P.st
        P1 == [ P EXCEPT !.mem[dst].key = P.mem[src].key,
                         !.mem[dst].epSquare = P.mem[src].epSquare,
                         !.mem[dst].psqScore = P.mem[src].psqScore,
                         !.mem[dst].rule50 = P.mem[src].rule50,
                         !.mem[dst].pliesFromNull = P.mem[src].pliesFromNull,
                         !.sideToMove = Opp(P.sideToMove) ]
        s1 == St(P1)
        k1 == IF s1.epSquare # SQ_NONE
              THEN Xor(s1.key, Zobrist_enpassant(file_of(s1.epSquare))) ELSE s1.key
    IN IF Do
       THEN [ P1 EXCEPT !.mem[P.st].key = Xor(k1, Zobrist_side),
                        !.mem[P.st].epSquare = SQ_NONE,
                        !.mem[P.st].rule50 = @ + 1,
                        !.mem[P.st].pliesFromNull = 0 ]
       ELSE P1

(***************************************************************************)
(* Legality: pl_move_is_legal, the move generator and is_pseudo_legal.     *)
(***************************************************************************)
\* pl_move_is_legal with one fault: a pinned piece may leave its line
pl_move_is_legal_NoPin(P, m, pinned) ==
    LET us == P.sideToMove
        them == Opp(us)
        from == from_sq(m)
        to == to_sq(m)
        ksq == king_square(P, us)
    IN
    IF move_type(m) = ENPASSANT
    THEN LET capsq == to + pawn_push(them)
             b == Xor(Xor(pieces(P), {from}), {capsq}) \cup {to}
         IN /\ (attacks_bb(ROOK, ksq, b) \cap pieces_ctt(P, them, QUEEN, ROOK)) = {}
            /\ (attacks_bb(BISHOP, ksq, b) \cap pieces_ctt(P, them, QUEEN, BISHOP)) = {}
    ELSE IF type_of(piece_on(P, from)) = KING
    THEN \/ move_type(m) = CASTLE
         \/ (attackers_to(P, to, pieces(P)) \cap pieces_c(P, them)) = {}
    ELSE TRUE

\* Position::pl_move_is_legal
pl_move_is_legal(P, m, pinned) ==
    LET us == P.sideToMove
        them == Opp(us)
        from == from_sq(m)
        to == to_sq(m)
        ksq == king_square(P, us)
    IN
    IF move_type(m) = ENPASSANT
    THEN LET capsq == to + pawn_push(them)
             b == Xor(Xor(pieces(P), {from}), {capsq}) \cup {to}
         IN /\ (attacks_bb(ROOK, ksq, b) \cap pieces_ctt(P, them, QUEEN, ROOK)) = {}
            /\ (attacks_bb(BISHOP, ksq, b) \cap pieces_ctt(P, them, QUEEN, BISHOP)) = {}
    ELSE IF type_of(piece_on(P, from)) = KING
    THEN \/ move_type(m) = CASTLE
         \/ (attackers_to(P, to, pieces(P)) \cap pieces_c(P, them)) = {}
    ELSE \/ pinned = {}
         \/ from \notin pinned
         \/ squares_aligned(from, to, ksq)

\* the squares a non-king move must reach when the side to move is in check
\* by one piece: the checker and the squares between it and the king
EvasionTarget(P) ==
    LET checksq == lsb(checkers(P))
    IN between_bb(checksq, king_square(P, P.sideToMove)) \cup checkers(P)

\* the move generator's promotions
GenPromotions(P) ==
    LET us == P.sideToMove
        them == Opp(us)
        pawns7 == { s \in pieces_ct(P, us, PAWN) : relative_rank(us, rank_of(s)) = 6 }
        targets(s) == { t \in {s + pawn_push(us)} : is_empty(P, t) }
                      \cup (attacks_from_pawn(s, us) \cap pieces_c(P, them))
    IN UNION { { make_special(s, t, PROMOTION, pt) : t \in targets(s), pt \in KNIGHT .. QUEEN } :
               s \in pawns7 }

\* the move generator's en passant captures
GenEnPassant(P) ==
    LET us == P.sideToMove
        epsq == ep_square(P)
    IN IF epsq = SQ_NONE THEN {}
       ELSE { make_special(s, epsq, ENPASSANT, KNIGHT) :
                s \in attacks_from_pawn(epsq, Opp(us)) \cap pieces_ct(P, us, PAWN) }

\* the move generator's castling moves
GenCastles(P) ==
    LET us == P.sideToMove
        enemies == pieces_c(P, Opp(us))
        kfrom == king_square(P, us)
        ok(cs) ==
            LET rfrom == castle_rook_square(P, us, cs)
                kto == relative_square(us, IF cs = KING_SIDE THEN SQ_G1 ELSE SQ_C1)
            IN /\ can_castle(P, make_castle_right(us, cs))
               /\ ~castle_impeded(P, us, cs)
               /\ \A s \in Min2(kfrom, kto) .. Max2(kfrom, kto) :
                     s = kfrom \/ (attackers_to(P, s, pieces(P)) \cap enemies) = {}
               /\ ~(/\ P.chess960
                    /\ (attackers_to(P, kto, Xor(pieces(P), {rfrom})) \cap enemies) # {})
    IN { make_special(kfrom, castle_rook_square(P, us, cs), CASTLE, KNIGHT) :
           cs \in { x \in {KING_SIDE, QUEEN_SIDE} : ok(x) } }

\* the special moves of MoveList<LEGAL>: what the generator yields for the
\* position (evasions only when in check), filtered by pl_move_is_legal
LegalSpecial(P) ==
    LET nCheckers == Cardinality(checkers(P))
        cand == CASE nCheckers = 0 -> GenPromotions(P) \cup GenEnPassant(P) \cup GenCastles(P)
                  [] nCheckers = 1 ->
                       { m \in GenPromotions(P) : to_sq(m) \in EvasionTarget(P) }
                       \cup { m \in GenEnPassant(P) :
                                (to_sq(m) - pawn_push(P.sideToMove)) \in EvasionTarget(P) }
                  [] OTHER -> {}
        pinned == pinned_pieces(P)
    IN { m \in cand : pl_move_is_legal(P, m, pinned) }

\* is_pseudo_legal for a pawn, without the two-square push
PawnPseudoLegal_NoDoublePush(P, from, to) ==
    LET us == P.sideToMove
        them == Opp(us)
        direction == to - from
    IN /\ (us = WHITE) = (direction > 0)
       /\ rank_of(to) # 7 /\ rank_of(to) # 0
       /\ CASE direction \in { DELTA_NW, DELTA_NE, -DELTA_NE, -DELTA_NW } ->
                 /\ color_of(piece_on(P, to)) = them
                 /\ Abs(file_of(from) - file_of(to)) = 1
            [] direction \in { DELTA_N, -DELTA_N } -> is_empty(P, to)
            [] OTHER -> FALSE
\* is_pseudo_legal for a pawn, with one fault: a capture is not held to the
\* neighbouring file
PawnPseudoLegal_NoFileTest(P, from, to) ==
    LET us == P.sideToMove
        them == Opp(us)
        direction == to - from
    IN /\ (us = WHITE) = (direction > 0)
       /\ rank_of(to) # 7 /\ rank_of(to) # 0
       /\ CASE direction \in { DELTA_NW, DELTA_NE, -DELTA_NE, -DELTA_NW } ->
                 color_of(piece_on(P, to)) = them
            [] direction \in { DELTA_N, -DELTA_N } -> is_empty(P, to)
            [] direction = DELTA_NN ->
                 rank_of(to) = 3 /\ is_empty(P, to) /\ is_empty(P, from + DELTA_N)
            [] direction = -DELTA_NN ->
                 rank_of(to) = 4 /\ is_empty(P, to) /\ is_empty(P, from - DELTA_N)
            [] OTHER -> FALSE
\* Position::is_pseudo_legal for a pawn of the side to move
PawnPseudoLegal(P, from, to) ==
    LET us == P.sideToMove
        them == Opp(us)
        direction == to - from
    IN /\ (us = WHITE) = (direction > 0)
       /\ rank_of(to) # 7 /\ rank_of(to) # 0
       /\ CASE direction \in { DELTA_NW, DELTA_NE, -DELTA_NE, -DELTA_NW } ->
                 /\ color_of(piece_on(P, to)) = them
                 /\ Abs(file_of(from) - file_of(to)) = 1
            [] direction \in { DELTA_N, -DELTA_N } -> is_empty(P, to)
            [] direction = DELTA_NN ->
                 rank_of(to) = 3 /\ is_empty(P, to) /\ is_empty(P, from + DELTA_N)
            [] direction = -DELTA_NN ->
                 rank_of(to) = 4 /\ is_empty(P, to) /\ is_empty(P, from - DELTA_N)
            [] OTHER -> FALSE

\* the filter applied in check, with one fault: the king stays in the
\* occupancy when the attackers of its destination are looked up
EvasionPseudoLegal_KeepKing(P, from, to, pc) ==
    LET us == P.sideToMove
    IN IF type_of(pc) # KING
       THEN /\ Cardinality(checkers(P)) = 1
            /\ to \in EvasionTarget(P)
       ELSE (attackers_to(P, to, pieces(P)) \cap pieces_c(P, Opp(us))) = {}
\* Position::is_pseudo_legal: the filter applied when the side to move is in check
EvasionPseudoLegal(P, from, to, pc) ==
    LET us == P.sideToMove
    IN IF type_of(pc) # KING
       THEN /\ Cardinality(checkers(P)) = 1
            /\ to \in EvasionTarget(P)
       ELSE (attackers_to(P, to, Xor(pieces(P), {from})) \cap pieces_c(P, Opp(us))) = {}

\* Position::is_pseudo_legal
is_pseudo_legal(P, m) ==
    LET us == P.sideToMove
        from == from_sq(m)
        to == to_sq(m)
        pc == piece_moved(P, m)
    IN IF move_type(m) # NORMAL THEN m \in LegalSpecial(P)
       ELSE /\ promotion_type(m) - 2 = NO_PIECE_TYPE
            /\ pc # NO_PIECE /\ color_of(pc) = us
            /\ color_of(piece_on(P, to)) # us
            /\ IF type_of(pc) = PAWN THEN PawnPseudoLegal(P, from, to)
               ELSE to \in attacks_from(pc, from, pieces(P))
            /\ in_check(P) => EvasionPseudoLegal(P, from, to, pc)

\* the squares the generator tries for the piece on from
GenTargets(P, from) ==
    LET pc == piece_on(P, from)
    IN IF type_of(pc) = PAWN
       THEN { from + d : d \in { 7, 8, 9, 16, -7, -8, -9, -16 } } \cap Squares
       ELSE attacks_from(pc, from, pieces(P))

\* the Normal moves of MoveList<LEGAL>
PseudoLegalNormal(P) ==
    { m \in UNION { { make_move(from, to) : to \in GenTargets(P, from) } :
                    from \in pieces_c(P, P.sideToMove) } : is_pseudo_legal(P, m) }
LegalNormal(P) ==
    LET pinned == pinned_pieces(P)
    IN { m \in PseudoLegalNormal(P) : pl_move_is_legal(P, m, pinned) }

\* MoveList<LEGAL>
LegalMoves(P) == LegalNormal(P) \cup LegalSpecial(P)

(***************************************************************************)
(* Position::is_draw<SkipRepetition>.                                      *)
(***************************************************************************)
\* the draw by material with one fault: the pawns are not looked at
MaterialDraw_IgnorePawns(P) ==
    St(P).npMaterial[WHITE] + St(P).npMaterial[BLACK] <= BishopValueMg

\* is_draw: the draw by material
MaterialDraw(P) ==
    /\ pieces_t(P, PAWN) = {}
    /\ St(P).npMaterial[WHITE] + St(P).npMaterial[BLACK] <= BishopValueMg

\* FiftyMoveDraw with one fault: a checkmate is not told apart
FiftyMoveDraw_IgnoreMate(P) == St(P).rule50 > 99

\* FiftyMoveDraw with one fault: the clock is compared one ply late
FiftyMoveDraw_Late(P) ==
    /\ St(P).rule50 > 100
    /\ (~in_check(P) \/ LegalMoves(P) # {})

\* is_draw: the draw by the fifty move rule
FiftyMoveDraw(P) ==
    /\ St(P).rule50 > 99
    /\ (~in_check(P) \/ LegalMoves(P) # {})

\* RepetitionWalk with one fault: the pawn keys are compared
RECURSIVE RepetitionWalk_PawnKey(_, _, _, _)
RepetitionWalk_PawnKey(P, stp, i, e) ==
    IF P.mem[P.mem[P.mem[stp].previous].previous].pawnKey = St(P).pawnKey THEN TRUE
    ELSE IF i + 2 <= e
         THEN RepetitionWalk_PawnKey(P, P.mem[P.mem[stp].previous].previous, i + 2, e)
    ELSE FALSE

\* is_draw: the do-while loop of the repetition walk, entered with stp the
\* record i - 2 plies back
RECURSIVE RepetitionWalk(_, _, _, _)
RepetitionWalk(P, stp, i, e) ==
    IF P.mem[P.mem[P.mem[stp].previous].previous].key = St(P).key THEN TRUE
    ELSE IF i + 2 <= e THEN RepetitionWalk(P, P.mem[P.mem[stp].previous].previous, i + 2, e)
    ELSE FALSE

\* is_draw: the draw by repetition
RepetitionDraw(P) ==
    IF 4 <= Min2(St(P).rule50, St(P).pliesFromNull)
    THEN RepetitionWalk(P, P.mem[St(P).previous].previous, 4,
                        Min2(St(P).rule50, St(P).pliesFromNull))
    ELSE FALSE

\* Position::is_draw<SkipRepetition>
is_draw(P, SkipRepetition) ==
    IF MaterialDraw(P) THEN TRUE
    ELSE IF FiftyMoveDraw(P) THEN TRUE
    ELSE IF ~SkipRepetition THEN RepetitionDraw(P)
    ELSE FALSE

(***************************************************************************)
(* Position::see and see_sign, the static exchange evaluator.              *)
(***************************************************************************)
\* next_attacker with one fault: no scan for X-ray attackers behind the piece
\* that is removed
RECURSIVE next_attacker_NoXray(_, _, _, _, _, _)
next_attacker_NoXray(P, Pt, to, stmAttackers, occupied, attackers) ==
    IF Pt = KING THEN [ pt |-> KING, occupied |-> occupied, attackers |-> attackers ]
    ELSE IF (stmAttackers \cap P.byTypeBB[Pt]) # {}
    THEN [ pt |-> Pt,
           occupied |-> Xor(occupied, {lsb(stmAttackers \cap P.byTypeBB[Pt])}),
           attackers |-> attackers ]
    ELSE next_attacker_NoXray(P, Pt + 1, to, stmAttackers, occupied, attackers)

\* next_attacker<Pt>: the type of the least valuable attacker of the side to
\* move, with occupied and attackers as the function leaves them
RECURSIVE next_attacker(_, _, _, _, _, _)
next_attacker(P, Pt, to, stmAttackers, occupied, attackers) ==
    IF Pt = KING THEN [ pt |-> KING, occupied |-> occupied, attackers |-> attackers ]
    ELSE IF (stmAttackers \cap P.byTypeBB[Pt]) # {}
    THEN LET occ == Xor(occupied, {lsb(stmAttackers \cap P.byTypeBB[Pt])})
             diag == IF Pt \in {PAWN, BISHOP, QUEEN}
                     THEN attacks_bb(BISHOP, to, occ) \cap pieces_tt(P, BISHOP, QUEEN) ELSE {}
             line == IF Pt \in {ROOK, QUEEN}
                     THEN attacks_bb(ROOK, to, occ) \cap pieces_tt(P, ROOK, QUEEN) ELSE {}
         IN [ pt |-> Pt, occupied |-> occ, attackers |-> attackers \cup diag \cup line ]
    ELSE next_attacker(P, Pt + 1, to, stmAttackers, occupied, attackers)

\* see: one pass of the do-while loop after the attacker has been located,
\* na being what next_attacker has left
RECURSIVE SeeSwap(_, _, _, _, _, _, _, _)
SeeAfterAttacker(P, to, swapList, stm, na) ==
    IF na.pt = KING
    THEN IF (na.attackers \cap na.occupied \cap pieces_c(P, Opp(stm))) # {}
         THEN Append(swapList, QueenValueMg * 16) ELSE swapList
    ELSE IF (na.attackers \cap na.occupied \cap pieces_c(P, Opp(stm))) # {}
    THEN SeeSwap(P, to, swapList, na.pt, Opp(stm),
                 na.attackers \cap na.occupied \cap pieces_c(P, Opp(stm)),
                 na.occupied, na.attackers \cap na.occupied)
    ELSE swapList

\* see: the do-while loop that builds the swap list
SeeSwap(P, to, swapList, captured, stm, stmAttackers, occupied, attackers) ==
    SeeAfterAttacker(P, to,
                     Append(swapList, -swapList[Len(swapList)] + PieceValueMg(captured)),
                     stm, next_attacker(P, PAWN, to, stmAttackers, occupied, attackers))

\* SeeNegamax with one fault: no side may stop capturing
RECURSIVE SeeNegamax_Forced(_)
SeeNegamax_Forced(swapList) ==
    IF Len(swapList) = 1 THEN swapList[1]
    ELSE SeeNegamax_Forced([ SubSeq(swapList, 1, Len(swapList) - 1) EXCEPT
                               ![Len(swapList) - 1] = -swapList[Len(swapList)] ])

\* see: the negamax through the swap list
RECURSIVE SeeNegamax(_)
SeeNegamax(swapList) ==
    IF Len(swapList) = 1 THEN swapList[1]
    ELSE SeeNegamax([ SubSeq(swapList, 1, Len(swapList) - 1) EXCEPT
                        ![Len(swapList) - 1] =
                            Min2(-swapList[Len(swapList)], swapList[Len(swapList) - 1]) ])

\* see: what is computed once captured and occupied are set
SeeFrom(P, m, captured, occupied) ==
    LET from == from_sq(m)
        to == to_sq(m)
        attackers == attackers_to(P, to, occupied)
        stm == Opp(color_of(piece_on(P, from)))
        stmAttackers == attackers \cap pieces_c(P, stm)
    IN IF stmAttackers = {} THEN PieceValueMg(captured)
       ELSE SeeNegamax(SeeSwap(P, to, << PieceValueMg(captured) >>,
                               type_of(piece_on(P, from)), stm, stmAttackers,
                               occupied, attackers))

\* Position::see
see(P, m) ==
    IF move_type(m) = ENPASSANT
    THEN SeeFrom(P, m, PAWN,
                 Xor(Xor(pieces(P), {from_sq(m)}), {to_sq(m) - pawn_push(P.sideToMove)}))
    ELSE IF move_type(m) = CASTLE THEN 0
    ELSE SeeFrom(P, m, type_of(piece_on(P, to_sq(m))), Xor(pieces(P), {from_sq(m)}))

\* Position::see_sign
see_sign(P, m) ==
    IF PieceValueMg(type_of(piece_on(P, to_sq(m)))) >= PieceValueMg(type_of(piece_moved(P, m)))
    THEN 1
    ELSE see(P, m)

(***************************************************************************)
(* Position::operator=.  The copy is a second Position object: its own     *)
(* startState is the record CopyState of the heap, and the records of the  *)
(* source stay where they are.                                             *)
(***************************************************************************)
CopyState == MaxRec + 1
copy_position(P) ==
    [ P EXCEPT !.mem = [ i \in (DOMAIN P.mem) \cup {CopyState} |->
                           IF i = CopyState THEN St(P) ELSE P.mem[i] ],
               !.st = CopyState,
               !.nodes = 0 ]

(***************************************************************************)
(* Position::flip.                                                         *)
(***************************************************************************)
\* flip, the loop over the squares from a1 to h8: every piece of pos goes,
\* with its colour changed, to the mirrored square; b holds the occupied
\* squares the loop has not come to yet
RECURSIVE FlipPieces(_, _, _)
FlipPieces(P, pos, b) ==
    IF b = {} THEN P
    ELSE LET s == lsb(b)
         IN FlipPieces(put_piece(P, XorInt(piece_on(pos, s), 8), FlipSq(s)), pos, b \ {s})

\* Position::flip
flip(P) ==
    LET pos == copy_position(P)
        right(Q, c, cs) ==
            IF can_castle(pos, make_castle_right(c, cs))
            THEN set_castle_right(Q, Opp(c), FlipSq(castle_rook_square(pos, c, cs)))
            ELSE Q
        P0 == [ clear EXCEPT !.sideToMove = Opp(pos.sideToMove),
                             !.nodes = pos.nodes,
                             !.chess960 = pos.chess960,
                             !.startPosPly = pos.startPosPly ]
        P1 == FlipPieces(P0, pos, pieces(pos))
        P2 == right(right(right(right(P1, WHITE, KING_SIDE), WHITE, QUEEN_SIDE),
                          BLACK, KING_SIDE), BLACK, QUEEN_SIDE)
        P3 == IF St(pos).epSquare # SQ_NONE
              THEN [ P2 EXCEPT !.mem[P2.st].epSquare = FlipSq(St(pos).epSquare) ]
              ELSE P2
        P4 == [ P3 EXCEPT !.mem[P3.st].checkersBB =
                              attackers_to(P3, king_square(P3, P3.sideToMove), pieces(P3))
                                  \cap pieces_c(P3, Opp(P3.sideToMove)) ]
    IN [ P4 EXCEPT !.mem[P4.st].key = compute_key(P4),
                   !.mem[P4.st].pawnKey = compute_pawn_key(P4),
                   !.mem[P4.st].materialKey = compute_material_key(P4),
                   !.mem[P4.st].psqScore = compute_psq_score(P4),
                   !.mem[P4.st].npMaterial =
                       [ c \in Colors |-> compute_non_pawn_material(P4, c) ] ]

(***************************************************************************)
(* The caller: a search that makes and unmakes legal moves and null moves, *)
(* with one StateInfo record of its own for each ply.                      *)
(***************************************************************************)
MOVE_NULL == 65

\* "4k2r/8/8/8/8/8/8/4K2R w Kk - 0 1"
FenCastleK ==
    << "4", "k", "2", "r", "/", "8", "/", "8", "/", "8", "/", "8", "/", "8", "/", "8", "/", "4", "K", "2", "R", " ", "w", " ", "K", "k", " ", "-", " ", "0", " ", "1" >>
\* "3k4/8/8/8/8/8/8/R3K3 w Q - 3 9"
FenCastleCheck ==
    << "3", "k", "4", "/", "8", "/", "8", "/", "8", "/", "8", "/", "8", "/", "8", "/", "R", "3", "K", "3", " ", "w", " ", "Q", " ", "-", " ", "3", " ", "9" >>
\* "1n2k2n/P7/8/8/8/8/p7/4K3 w - - 0 1"
FenPromo ==
    << "1", "n", "2", "k", "2", "n", "/", "P", "7", "/", "8", "/", "8", "/", "8", "/", "8", "/", "p", "7", "/", "4", "K", "3", " ", "w", " ", "-", " ", "-", " ", "0", " ", "1" >>
\* "4k3/8/8/3pP3/8/8/8/4K3 w - d6 0 1"
FenEp ==
    << "4", "k", "3", "/", "8", "/", "8", "/", "3", "p", "P", "3", "/", "8", "/", "8", "/", "8", "/", "4", "K", "3", " ", "w", " ", "-", " ", "d", "6", " ", "0", " ", "1" >>
\* "4k3/8/8/8/3p4/8/4P3/4K3 w - - 0 1"
FenPush ==
    << "4", "k", "3", "/", "8", "/", "8", "/", "8", "/", "3", "p", "4", "/", "8", "/", "4", "P", "3", "/", "4", "K", "3", " ", "w", " ", "-", " ", "-", " ", "0", " ", "1" >>
\* "4k3/8/8/8/4N3/8/8/4RK2 w - - 7 12"
FenDisc ==
    << "4", "k", "3", "/", "8", "/", "8", "/", "8", "/", "4", "N", "3", "/", "8", "/", "8", "/", "4", "R", "K", "2", " ", "w", " ", "-", " ", "-", " ", "7", " ", "1", "2" >>
\* "8/8/8/K2pP2r/8/8/8/4k3 w - d6 0 1"
FenEpPin ==
    << "8", "/", "8", "/", "8", "/", "K", "2", "p", "P", "2", "r", "/", "8", "/", "8", "/", "8", "/", "4", "k", "3", " ", "w", " ", "-", " ", "d", "6", " ", "0", " ", "1" >>
\* "8/8/8/k2pP2R/8/8/8/4K3 w - d6 0 1"
FenEpDisc ==
    << "8", "/", "8", "/", "8", "/", "k", "2", "p", "P", "2", "R", "/", "8", "/", "8", "/", "8", "/", "4", "K", "3", " ", "w", " ", "-", " ", "d", "6", " ", "0", " ", "1" >>
\* "4k3/8/8/8/8/4r3/4R3/4K3 w - - 0 1"
FenPin ==
    << "4", "k", "3", "/", "8", "/", "8", "/", "8", "/", "8", "/", "4", "r", "3", "/", "4", "R", "3", "/", "4", "K", "3", " ", "w", " ", "-", " ", "-", " ", "0", " ", "1" >>

StartFens ==
    { FenCastleK,
      FenCastleCheck,
      FenPromo,
      FenEp,
      FenPush,
      FenDisc,
      FenEpPin,
      FenEpDisc,
      FenPin }

\* the variables hold the position P
IsPos(P) ==
    /\ board = P.board
    /\ byTypeBB = P.byTypeBB
    /\ byColorBB = P.byColorBB
    /\ pieceCount = P.pieceCount
    /\ pieceList = P.pieceList
    /\ index = P.index
    /\ castleRightsMask = P.castleRightsMask
    /\ castleRookSquare = P.castleRookSquare
    /\ castlePath = P.castlePath
    /\ sideToMove = P.sideToMove
    /\ nodes = P.nodes
    /\ startPosPly = P.startPosPly
    /\ chess960 = P.chess960
    /\ st = P.st
    /\ mem = P.mem

(***************************************************************************)
(* src/modules/mac/path.c: path_normalize.                                 *)
(***************************************************************************)
\* the terminator '\0' and the characters the strings are made of, '/' and 'a'
NUL == 0
Chars == { 47, 97 }
\* the NUL-terminated strings of length 0 .. MaxLen, as the bytes at in[0 ..]
Strings ==
    UNION { { f \in [ 0 .. n -> Chars \cup {NUL} ] :
                f[n] = NUL /\ \A k \in 0 .. n - 1 : f[k] # NUL } : n \in 0 .. MaxLen }
strlen(str) == CHOOSE n \in DOMAIN str : str[n] = NUL /\ \A k \in 0 .. n - 1 : str[k] # NUL
\* the bytes at out[0 ..]: the caller's buffer and the byte after the place of
\* the terminator; nothing has been written to them, so they hold any values
OutCells == 0 .. MaxLen + 1
\* no call of path_normalize is under way
NoPath == [ in |-> << >>, out |-> << >>, i |-> 0, pc |-> "none" ]
\* what the engine consists of; path_normalize works on none of it
engine == << board, byTypeBB, byColorBB, pieceCount, pieceList, index,
             castleRightsMask, castleRookSquare, castlePath,
             sideToMove, nodes, startPosPly, chess960, st, mem, moves, limit >>

\* path_normalize(in, out) is entered: int i = 0
InitPath ==
    /\ IsPos(clear)
    /\ moves = << >>
    /\ limit = [ ply |-> 0, nodes |-> 0 ]
    /\ \E str \in Strings, buf \in [ OutCells -> Chars \cup {NUL} ] :
           frame = [ in |-> str, out |-> buf, i |-> 0, pc |-> "while" ]

\* while ((ch = in[i++]) != '\0') out[i-1] = in[i-1];
PathWhile ==
    /\ frame.pc = "while"
    /\ LET ch == frame.in[frame.i]
           i == frame.i + 1
       IN frame' = IF ch # NUL
                  THEN [ frame EXCEPT !.i = i, !.out[i - 1] = frame.in[i - 1] ]
                  ELSE [ frame EXCEPT !.i = i, !.pc = "terminate" ]
    /\ UNCHANGED engine

\* out[i] = '\0';
PathTerminate ==
    /\ frame.pc = "terminate"
    /\ frame' = [ frame EXCEPT !.out[frame.i] = NUL, !.pc = "done" ]
    /\ UNCHANGED engine

NextPath == PathWhile \/ PathTerminate

SpecPath == InitPath /\ [][NextPath]_vars

Init ==
    /\ \E fen \in StartFens : IsPos(from_fen(fen, FALSE))
    /\ moves = << >>
    /\ limit = [ ply |-> MaxPly, nodes |-> MaxNodes ]
    /\ frame = NoPath

\* the caller's record for the next ply; it is a local of the caller's frame
\* for that ply, and is released (holds nothing meaningful again) when the
\* frame has unmade its move
NextSlot == Len(moves) + 1
Release(P, slot) == [ P EXCEPT !.mem[slot] = FreshState ]

\* pos.do_move(m, st) for a legal move m
DoMove ==
    /\ Len(moves) < limit.ply
    /\ nodes < limit.nodes
    /\ \E m \in LegalMoves(Pos) :
          /\ SetPos(do_move(Pos, m, NextSlot))
          /\ moves' = Append(moves, m)
    /\ UNCHANGED << limit, frame >>

\* pos.undo_move(m) for the move made last
UndoMove ==
    /\ moves # << >>
    /\ moves[Len(moves)] # MOVE_NULL
    /\ SetPos(Release(undo_move(Pos, moves[Len(moves)]), Len(moves)))
    /\ moves' = SubSeq(moves, 1, Len(moves) - 1)
    /\ UNCHANGED << limit, frame >>

\* pos.do_null_move<true>(st)
DoNullMove ==
    /\ Len(moves) < limit.ply
    /\ ~in_check(Pos)
    /\ SetPos(do_null_move(Pos, NextSlot, TRUE))
    /\ moves' = Append(moves, MOVE_NULL)
    /\ UNCHANGED << limit, frame >>

\* pos.do_null_move<false>(st) for the null move made last
UndoNullMove ==
    /\ moves # << >>
    /\ moves[Len(moves)] = MOVE_NULL
    /\ SetPos(Release(do_null_move(Pos, Len(moves), FALSE), Len(moves)))
    /\ moves' = SubSeq(moves, 1, Len(moves) - 1)
    /\ UNCHANGED << limit, frame >>

Next == DoMove \/ UndoMove \/ DoNullMove \/ UndoNullMove

Spec == Init /\ [][Next]_vars

\* the roots of the scenarios, each with the caller's bounds from it
\* "rnbqkbnr/pppppppp/8/8/8/8/PPPPPPPP/RNBQKBNR w KQkq - 0 1"
FenStart ==
    << "r", "n", "b", "q", "k", "b", "n", "r", "/", "p", "p", "p", "p", "p", "p", "p", "p", "/", "8", "/", "8", "/", "8", "/", "8", "/", "P", "P", "P", "P", "P", "P", "P", "P", "/", "R", "N", "B", "Q", "K", "B", "N", "R", " ", "w", " ", "K", "Q", "k", "q", " ", "-", " ", "0", " ", "1" >>
\* "4k3/8/8/3Pp3/8/8/8/4K3 w - e6 0 1"
FenEpRecorded ==
    << "4", "k", "3", "/", "8", "/", "8", "/", "3", "P", "p", "3", "/", "8", "/", "8", "/", "8", "/", "4", "K", "3", " ", "w", " ", "-", " ", "e", "6", " ", "0", " ", "1" >>
\* "4k3/8/8/4p3/8/8/8/4K3 w - e6 0 1"
FenEpUnattacked ==
    << "4", "k", "3", "/", "8", "/", "8", "/", "4", "p", "3", "/", "8", "/", "8", "/", "8", "/", "4", "K", "3", " ", "w", " ", "-", " ", "e", "6", " ", "0", " ", "1" >>
\* "r3k2r/8/8/8/8/8/8/R3K2R w KQkq - 0 1"
FenCastles ==
    << "r", "3", "k", "2", "r", "/", "8", "/", "8", "/", "8", "/", "8", "/", "8", "/", "8", "/", "R", "3", "K", "2", "R", " ", "w", " ", "K", "Q", "k", "q", " ", "-", " ", "0", " ", "1" >>
\* "4k3/8/8/8/8/8/4P3/4K3 w - - 99 60"
FenFifty ==
    << "4", "k", "3", "/", "8", "/", "8", "/", "8", "/", "8", "/", "8", "/", "4", "P", "3", "/", "4", "K", "3", " ", "w", " ", "-", " ", "-", " ", "9", "9", " ", "6", "0" >>
\* "7k/8/6K1/8/8/8/8/R7 w - - 99 80"
FenFiftyMate ==
    << "7", "k", "/", "8", "/", "6", "K", "1", "/", "8", "/", "8", "/", "8", "/", "8", "/", "R", "7", " ", "w", " ", "-", " ", "-", " ", "9", "9", " ", "8", "0" >>
\* "7k/7p/7P/8/8/p7/P7/K7 w - - 0 1"
FenRep ==
    << "7", "k", "/", "7", "p", "/", "7", "P", "/", "8", "/", "8", "/", "p", "7", "/", "P", "7", "/", "K", "7", " ", "w", " ", "-", " ", "-", " ", "0", " ", "1" >>
\* "r3k2r/2p5/8/3P4/3pP3/8/8/R3K2R b KQkq e3 0 1"
FenEpCastle ==
    << "r", "3", "k", "2", "r", "/", "2", "p", "5", "/", "8", "/", "3", "P", "4", "/", "3", "p", "P", "3", "/", "8", "/", "8", "/", "R", "3", "K", "2", "R", " ", "b", " ", "K", "Q", "k", "q", " ", "e", "3", " ", "0", " ", "1" >>
\* "6nk/2p1pP2/3P4/p7/P1p4p/6pP/2P1P1P1/1K6 w - - 0 1"
FenPawns ==
    << "6", "n", "k", "/", "2", "p", "1", "p", "P", "2", "/", "3", "P", "4", "/", "p", "7", "/", "P", "1", "p", "4", "p", "/", "6", "p", "P", "/", "2", "P", "1", "P", "1", "P", "1", "/", "1", "K", "6", " ", "w", " ", "-", " ", "-", " ", "0", " ", "1" >>
\* "5b2/8/4k3/8/4N3/8/r7/4RK2 w - - 0 1"
FenEvade ==
    << "5", "b", "2", "/", "8", "/", "4", "k", "3", "/", "8", "/", "4", "N", "3", "/", "8", "/", "r", "7", "/", "4", "R", "K", "2", " ", "w", " ", "-", " ", "-", " ", "0", " ", "1" >>

\* a king and a bishop against a king, the clock near its end
\* "4k3/8/8/8/8/8/8/4KB2 w - - 98 60"
FenBishop ==
    << "4", "k", "3", "/", "8", "/", "8", "/", "8", "/", "8", "/", "8", "/", "8", "/", "4", "K", "B", "2", " ", "w", " ", "-", " ", "-", " ", "9", "8", " ", "6", "0" >>
\* a king and a bishop against a king and a knight that can be taken
\* "4k3/8/8/8/8/8/5n2/4KB2 w - - 0 1"
FenMinors ==
    << "4", "k", "3", "/", "8", "/", "8", "/", "8", "/", "8", "/", "8", "/", "5", "n", "2", "/", "4", "K", "B", "2", " ", "w", " ", "-", " ", "-", " ", "0", " ", "1" >>

\* Black to move with a part of the castle rights, far into the game
\* "4k2r/8/8/8/8/8/8/R3K3 b Qk - 12 34"
FenSubset ==
    << "4", "k", "2", "r", "/", "8", "/", "8", "/", "8", "/", "8", "/", "8", "/", "8", "/", "R", "3", "K", "3", " ", "b", " ", "Q", "k", " ", "-", " ", "1", "2", " ", "3", "4" >>

GameRoots ==
    { [ fen |-> f, ply |-> MaxGamePly ] :
        f \in { FenStart, FenEpRecorded, FenEpUnattacked, FenCastles, FenFifty, FenFiftyMate,
                FenEpCastle, FenBishop, FenMinors,
                FenSubset } }
    \cup { [ fen |-> FenRep, ply |-> MaxRepPly ] }

InitGame ==
    /\ \E r \in GameRoots :
          /\ IsPos(from_fen(r.fen, FALSE))
          /\ limit = [ ply |-> r.ply, nodes |-> r.ply ]
    /\ frame = NoPath
    /\ moves = << >>

SpecGame == InitGame /\ [][Next]_vars

\* the roots the exchanges of see are played on
\* "1k1r4/1pp4p/p7/4p3/8/P5P1/1PP4P/2K1R3 w - - 0 1"
FenSeeRook ==
    << "1", "k", "1", "r", "4", "/", "1", "p", "p", "4", "p", "/", "p", "7", "/", "4", "p", "3", "/", "8", "/", "P", "5", "P", "1", "/", "1", "P", "P", "4", "P", "/", "2", "K", "1", "R", "3", " ", "w", " ", "-", " ", "-", " ", "0", " ", "1" >>
\* "1k1r3q/1ppn3p/p4b2/4p3/8/P2N2P1/1PP1R1BP/2K1Q3 w - - 0 1"
FenSeeXray ==
    << "1", "k", "1", "r", "3", "q", "/", "1", "p", "p", "n", "3", "p", "/", "p", "4", "b", "2", "/", "4", "p", "3", "/", "8", "/", "P", "2", "N", "2", "P", "1", "/", "1", "P", "P", "1", "R", "1", "B", "P", "/", "2", "K", "1", "Q", "3", " ", "w", " ", "-", " ", "-", " ", "0", " ", "1" >>
\* "8/8/8/8/3k4/4p3/8/2B1R1K1 w - - 0 1"
FenSeeKing ==
    << "8", "/", "8", "/", "8", "/", "8", "/", "3", "k", "4", "/", "4", "p", "3", "/", "8", "/", "2", "B", "1", "R", "1", "K", "1", " ", "w", " ", "-", " ", "-", " ", "0", " ", "1" >>
\* "4k3/2p5/8/3pP3/8/8/8/4K3 w - d6 0 1"
FenSeeEp ==
    << "4", "k", "3", "/", "2", "p", "5", "/", "8", "/", "3", "p", "P", "3", "/", "8", "/", "8", "/", "8", "/", "4", "K", "3", " ", "w", " ", "-", " ", "d", "6", " ", "0", " ", "1" >>
\* "1n1rk3/P7/8/8/8/8/8/4K3 w - - 0 1"
FenSeePromo ==
    << "1", "n", "1", "r", "k", "3", "/", "P", "7", "/", "8", "/", "8", "/", "8", "/", "8", "/", "8", "/", "4", "K", "3", " ", "w", " ", "-", " ", "-", " ", "0", " ", "1" >>
\* "4k3/8/2p2n2/3p4/4P3/8/8/3QK3 w - - 0 1"
FenSeeStop ==
    << "4", "k", "3", "/", "8", "/", "2", "p", "2", "n", "2", "/", "3", "p", "4", "/", "4", "P", "3", "/", "8", "/", "8", "/", "3", "Q", "K", "3", " ", "w", " ", "-", " ", "-", " ", "0", " ", "1" >>

SeeRoots ==
    { FenSeeRook, FenSeeXray, FenSeeKing, FenSeeEp, FenSeePromo, FenCastles, FenSeeStop }

InitSee ==
    /\ \E fen \in SeeRoots : IsPos(from_fen(fen, FALSE))
    /\ moves = << >>
    /\ limit = [ ply |-> MaxSeePly, nodes |-> MaxSeePly ]
    /\ frame = NoPath

SpecSee == InitSee /\ [][Next]_vars

(***************************************************************************)
(* The Chess960 roots: every placing of a king on the files b to g of its  *)
(* first rank and of a rook on another file of that rank, with the right   *)
(* to castle with that rook, for either side to move.  The side has a      *)
(* second rook in front of the a-file corner, the other side a lone king   *)
(* on the file of the castling king.                                       *)
(***************************************************************************)
\* a run of n empty squares
FenGap(n) == IF n > 0 THEN << DigitChars[n + 1] >> ELSE << >>
\* a rank with the piece K on file k and, for r in 0..7, the piece R on file r
FenRank(k, r, K, R) ==
    IF r \notin 0 .. 7 THEN FenGap(k) \o << K >> \o FenGap(7 - k)
    ELSE LET lo == Min2(k, r)
             hi == Max2(k, r)
         IN FenGap(lo) \o << IF lo = k THEN K ELSE R >> \o FenGap(hi - lo - 1)
                      \o << IF hi = k THEN K ELSE R >> \o FenGap(7 - hi)
Fen960(c, k, r) ==
    LET empty == << "8", "/", "8", "/", "8", "/", "8", "/", "8", "/" >>
        tail == << " ", "-", " ", "0", " ", "1" >>
    IN IF c = WHITE
       THEN FenRank(k, 8, "k", "r") \o << "/" >> \o empty \o << "R", "7", "/" >>
                \o FenRank(k, r, "K", "R") \o << " ", "w", " ", UpperFiles[r + 1] >> \o tail
       ELSE FenRank(k, r, "k", "r") \o << "/", "r", "7", "/" >> \o empty
                \o FenRank(k, 8, "K", "R") \o << " ", "b", " ", LowerFiles[r + 1] >> \o tail

Init960 ==
    /\ \E c \in Colors, k \in 1 .. 6, r \in 0 .. 7 :
          /\ r # k
          /\ IsPos(from_fen(Fen960(c, k, r), TRUE))
    /\ moves = << >>
    /\ limit = [ ply |-> Max960Ply, nodes |-> Max960Ply ]
    /\ frame = NoPath

Spec960 == Init960 /\ [][Next]_vars

\* the castling rooks are not on the corner files
\* "1r2k1r1/8/8/8/8/8/8/1R2K1R1 w KQkq - 0 1"
FenScanInner ==
    << "1", "r", "2", "k", "1", "r", "1", "/", "8", "/", "8", "/", "8", "/", "8", "/", "8", "/", "8", "/", "1", "R", "2", "K", "1", "R", "1", " ", "w", " ", "K", "Q", "k", "q", " ", "-", " ", "0", " ", "1" >>
\* a rook of the other side stands outside the castling rook
\* "4k3/8/8/8/8/8/8/4KR1r w K - 0 1"
FenScanEnemy ==
    << "4", "k", "3", "/", "8", "/", "8", "/", "8", "/", "8", "/", "8", "/", "8", "/", "4", "K", "R", "1", "r", " ", "w", " ", "K", " ", "-", " ", "0", " ", "1" >>
\* the letter names the side of the king that has no rook
\* "4k3/8/8/8/8/8/8/R3K3 w K - 0 1"
FenScanOther ==
    << "4", "k", "3", "/", "8", "/", "8", "/", "8", "/", "8", "/", "8", "/", "8", "/", "R", "3", "K", "3", " ", "w", " ", "K", " ", "-", " ", "0", " ", "1" >>

\* the moves from the positions that is_pseudo_legal, hidden_checkers and the
\* castling letters of from_fen are tried on: pawns that may and may not push,
\* take and promote, checks, double checks, pins, and rooks in odd places
InitLegal ==
    /\ \E fen \in { FenPawns, FenEvade, FenPromo, FenEp, FenEpDisc, FenCastleCheck,
                     FenDisc, FenPin, FenScanInner, FenScanEnemy, FenScanOther } :
           IsPos(from_fen(fen, FALSE))
    /\ moves = << >>
    /\ limit = [ ply |-> MaxLegalPly, nodes |-> MaxLegalPly ]
    /\ frame = NoPath

SpecLegal == InitLegal /\ [][Next]_vars

(***************************************************************************)
(* Properties.                                                             *)
(***************************************************************************)
LastMove == moves[Len(moves)]
\* the checkers of the side to move, computed from scratch
ScratchCheckers(P) ==
    attackers_to(P, king_square(P, P.sideToMove), pieces(P)) \cap pieces_c(P, Opp(P.sideToMove))
\* the pieces of the side to move that attack the king of the other side
KingCapturers(P) ==
    attackers_to(P, king_square(P, Opp(P.sideToMove)), pieces(P)) \cap pieces_c(P, P.sideToMove)
\* what make / unmake must restore (the order of the piece lists excepted)
Observable(P) ==
    [ sideToMove |-> P.sideToMove, board |-> P.board, byTypeBB |-> P.byTypeBB,
      byColorBB |-> P.byColorBB, pieceCount |-> P.pieceCount,
      key |-> St(P).key, pawnKey |-> St(P).pawnKey, materialKey |-> St(P).materialKey,
      psqScore |-> St(P).psqScore, npMaterial |-> St(P).npMaterial,
      checkersBB |-> St(P).checkersBB, castleRights |-> St(P).castleRights,
      epSquare |-> St(P).epSquare, rule50 |-> St(P).rule50 ]

\* C1: in every reachable position, for every legal move m of any kind,
\* do_move(m, newSt) followed by undo_move(m) restores the side to move, the
\* board, every bitboard, the piece counts, the three keys, psqScore,
\* npMaterial, checkersBB, castleRights, epSquare and rule50.
C1_MakeUnmakeRestores ==
    \A m \in LegalMoves(Pos) :
        Observable(undo_move(do_move(Pos, m, NextSlot), m)) = Observable(Pos)
\* a position the caller has come back to by undo_move, in which a castle, a
\* capture and a quiet move are legal
C1_Witness ==
    /\ moves = << >> /\ nodes > 0
    /\ \E m \in LegalMoves(Pos) : move_type(m) = CASTLE
    /\ \E m \in LegalMoves(Pos) : move_type(m) = NORMAL /\ ~is_empty(Pos, to_sq(m))
    /\ \E m \in LegalMoves(Pos) : move_type(m) = NORMAL /\ is_empty(Pos, to_sq(m))

\* C2: the incrementally maintained key equals compute_key() in every
\* position reached from a from_fen position by legal moves.
C2_KeyIsComputeKey == St(Pos).key = compute_key(Pos)
\* after a castle and a king move of the other side that cleared its right
C2_Witness ==
    /\ Len(moves) = 2 /\ move_type(moves[1]) = CASTLE /\ moves[2] # MOVE_NULL
    /\ St(Pos).castleRights = {} /\ mem[0].castleRights = {0, 1}

\* C3: pawnKey equals compute_pawn_key() and materialKey equals
\* compute_material_key() in every position reached by legal moves.
C3_PawnAndMaterialKeys ==
    /\ St(Pos).pawnKey = compute_pawn_key(Pos)
    /\ St(Pos).materialKey = compute_material_key(Pos)
\* after a promotion that captured a piece
C3_Witness ==
    /\ moves # << >> /\ move_type(LastMove) = PROMOTION
    /\ St(Pos).capturedType # NO_PIECE_TYPE

\* C4: psqScore equals compute_psq_score() and npMaterial[c] equals
\* compute_non_pawn_material(c) for both colours in every position reached
\* by legal moves.
C4_ScoreAndMaterial ==
    /\ St(Pos).psqScore = compute_psq_score(Pos)
    /\ \A c \in Colors : St(Pos).npMaterial[c] = compute_non_pawn_material(Pos, c)
\* after an en passant capture that followed a promotion, or a castle
C4_Witness ==
    /\ moves # << >>
    /\ \/ move_type(LastMove) = ENPASSANT
       \/ (move_type(LastMove) = PROMOTION /\ St(Pos).capturedType = NO_PIECE_TYPE)

\* C5: the bitboards and the board agree after every do_move, undo_move,
\* castle and null move: byTypeBB[ALL_PIECES] is the union of the six type
\* bitboards and of the two colour bitboards, the type bitboards are pairwise
\* disjoint and so are the colour bitboards, and board[s] is the piece of
\* colour c and type pt exactly when s is in byColorBB[c] and byTypeBB[pt]
\* (with the disjointness: an occupied square holds a real piece and is in
\* the bitboards of its colour and its type, an empty one holds NO_PIECE).
C5_BitboardsAgree ==
    /\ byTypeBB[ALL_PIECES] = UNION { byTypeBB[pt] : pt \in PieceTypes }
    /\ byTypeBB[ALL_PIECES] = byColorBB[WHITE] \cup byColorBB[BLACK]
    /\ \A p1, p2 \in PieceTypes : p1 < p2 => byTypeBB[p1] \cap byTypeBB[p2] = {}
    /\ byColorBB[WHITE] \cap byColorBB[BLACK] = {}
    /\ \A s \in Squares :
          IF s \in byTypeBB[ALL_PIECES]
          THEN /\ color_of(board[s]) \in Colors /\ type_of(board[s]) \in PieceTypes
               /\ s \in byColorBB[color_of(board[s])]
               /\ s \in byTypeBB[type_of(board[s])]
          ELSE board[s] = NO_PIECE
\* a castle has just been made, after another move was made and unmade
C5_Witness ==
    /\ nodes > 1 /\ Len(moves) = 1 /\ LastMove # MOVE_NULL
    /\ move_type(LastMove) = CASTLE

\* C6: the piece lists, the piece counts and the index agree with the board:
\* the first pieceCount[c][pt] slots of a list are squares holding that piece
\* with index pointing back at the slot, every square holding the piece is
\* in its list below the count (so the count is the number of such pieces),
\* and the slot behind the last piece holds SQ_NONE.
C6_PieceLists ==
    /\ \A c \in Colors : \A pt \in PieceTypes :
          /\ \A i \in 0 .. pieceCount[c][pt] - 1 :
                /\ pieceList[c][pt][i] \in Squares
                /\ board[pieceList[c][pt][i]] = make_piece(c, pt)
                /\ index[pieceList[c][pt][i]] = i
          /\ pieceList[c][pt][pieceCount[c][pt]] = SQ_NONE
    /\ \A s \in Squares :
          board[s] # NO_PIECE =>
              /\ index[s] < pieceCount[color_of(board[s])][type_of(board[s])]
              /\ pieceList[color_of(board[s])][type_of(board[s])][index[s]] = s
\* the knight b8 was captured (the knight h8 took its slot) and put back by
\* undo_move at the tail of the list
C6_Witness ==
    /\ moves = << >> /\ nodes > 0
    /\ pieceCount[BLACK][KNIGHT] = 2
    /\ pieceList[BLACK][KNIGHT][0] = 63 /\ pieceList[BLACK][KNIGHT][1] = 57

\* C7: after do_move(m, newSt) of a legal move, checkersBB is the set of
\* pieces of the side that moved that attack the king of the side to move,
\* computed from scratch, and it holds at most two squares.
C7_CheckersFromScratch ==
    /\ checkers(Pos) = ScratchCheckers(Pos)
    /\ Cardinality(checkers(Pos)) <= 2
\* a double check: the knight moved off the rook's file and checks itself
C7_Witness ==
    /\ moves # << >> /\ LastMove # MOVE_NULL
    /\ Cardinality(checkers(Pos)) = 2

\* C8: for every legal move m of any kind, move_gives_check(m, CheckInfo(pos))
\* is true exactly when, after the move, the from-scratch checkers of the
\* new side to move are not empty.
C8_MoveGivesCheck ==
    \A m \in LegalMoves(Pos) :
        move_gives_check(Pos, m, CheckInfo(Pos))
            <=> (ScratchCheckers(do_move(Pos, m, NextSlot)) # {})
\* a position, come back to by undo_move, with a legal en passant capture
\* that gives check by uncovering the rook, and legal moves that do not
C8_Witness ==
    /\ nodes > 0
    /\ \E m \in LegalMoves(Pos) :
          move_type(m) = ENPASSANT /\ move_gives_check(Pos, m, CheckInfo(Pos))
    /\ \E m \in LegalMoves(Pos) : ~move_gives_check(Pos, m, CheckInfo(Pos))

\* the moves C9 speaks of: the Normal moves is_pseudo_legal accepts and, when
\* the side to move is not in check, the en passant captures
C9_Moves ==
    PseudoLegalNormal(Pos) \cup (IF in_check(Pos) THEN {} ELSE GenEnPassant(Pos))
\* C9: for each of these moves pl_move_is_legal(m, pinned_pieces()) is true
\* exactly when the mover's king is not attacked after the move; and in every
\* position reached the side not to move is not in check and each colour has
\* exactly one king.
C9_LegalIffKingSafe ==
    /\ LET pinned == pinned_pieces(Pos)
       IN \A m \in C9_Moves :
              pl_move_is_legal(Pos, m, pinned)
                  <=> (KingCapturers(do_move(Pos, m, NextSlot)) = {})
    /\ KingCapturers(Pos) = {}
    /\ \A c \in Colors : pieceCount[c][KING] = 1
\* a position reached by a move, with a pinned piece that has a legal and an
\* illegal move
C9_Witness ==
    /\ moves # << >>
    /\ \E m1, m2 \in C9_Moves :
          /\ from_sq(m1) = from_sq(m2) /\ from_sq(m1) \in pinned_pieces(Pos)
          /\ pl_move_is_legal(Pos, m1, pinned_pieces(Pos))
          /\ ~pl_move_is_legal(Pos, m2, pinned_pieces(Pos))

\* what do_null_move must leave alone
NullKeeps(P) ==
    [ board |-> P.board, byTypeBB |-> P.byTypeBB, byColorBB |-> P.byColorBB,
      castleRights |-> St(P).castleRights, pawnKey |-> St(P).pawnKey,
      materialKey |-> St(P).materialKey, psqScore |-> St(P).psqScore ]
\* what do_null_move<false> must restore
NullRestores(P) ==
    [ key |-> St(P).key, epSquare |-> St(P).epSquare, psqScore |-> St(P).psqScore,
      rule50 |-> St(P).rule50, pliesFromNull |-> St(P).pliesFromNull,
      sideToMove |-> P.sideToMove ]
\* C10: when the side to move is not in check, do_null_move<true> changes the
\* key by the side key, and by the key of the en passant file exactly when an
\* en passant square was set, flips the side to move, clears the en passant
\* square, adds one to rule50, zeroes pliesFromNull and leaves the board, the
\* bitboards, castleRights, pawnKey, materialKey and psqScore alone; the
\* following do_null_move<false> restores key, epSquare, psqScore, rule50,
\* pliesFromNull and the side to move.
C10_NullMove ==
    ~in_check(Pos) =>
        LET P == Pos
            Q == do_null_move(P, NextSlot, TRUE)
            R == do_null_move(Q, NextSlot, FALSE)
            ep == St(P).epSquare
        IN /\ Xor(St(Q).key, St(P).key) =
                  Zobrist_side \cup (IF ep # SQ_NONE THEN Zobrist_enpassant(file_of(ep)) ELSE {})
           /\ Q.sideToMove = Opp(P.sideToMove)
           /\ St(Q).epSquare = SQ_NONE
           /\ St(Q).rule50 = St(P).rule50 + 1
           /\ St(Q).pliesFromNull = 0
           /\ NullKeeps(Q) = NullKeeps(P)
           /\ NullRestores(R) = NullRestores(P)
\* a null move has been made in a position that had an en passant square
C10_Witness ==
    /\ moves # << >> /\ LastMove = MOVE_NULL
    /\ mem[Len(moves)].epSquare # SQ_NONE /\ St(Pos).epSquare = SQ_NONE

\* the fields of a position that its FEN is to carry: the rook square of a
\* castling right counts while the right is held
FenObservable(P) ==
    [ board |-> P.board, sideToMove |-> P.sideToMove,
      castleRights |-> St(P).castleRights,
      castleRookSquare |->
          [ c \in Colors |-> [ cs \in {KING_SIDE, QUEEN_SIDE} |->
              IF can_castle(P, make_castle_right(c, cs))
              THEN castle_rook_square(P, c, cs) ELSE SQ_NONE ] ],
      epSquare |-> St(P).epSquare, rule50 |-> St(P).rule50,
      startPosPly |-> P.startPosPly,
      key |-> St(P).key, pawnKey |-> St(P).pawnKey, materialKey |-> St(P).materialKey,
      psqScore |-> St(P).psqScore, npMaterial |-> St(P).npMaterial,
      checkersBB |-> St(P).checkersBB ]

\* C11: for every position reached from a from_fen position by legal moves,
\* from_fen(to_fen(P)) equals P in the board, the side to move, the castle
\* rights and their rook squares, epSquare, rule50, startPosPly, the three
\* keys, psqScore, npMaterial and checkersBB.
C11_FenRoundTrip == FenObservable(from_fen(to_fen(Pos), chess960)) = FenObservable(Pos)

(***************************************************************************)
(* The scenarios: positions parsed from given FENs and single moves made   *)
(* from them.  A root is told by the key of startState, which no move      *)
(* writes to and which holds one atom for all that a position consists of. *)
(***************************************************************************)
RootIs(fen) == mem[0].key = from_fen(fen, FALSE).mem[0].key
SQ_E2 == make_square(4, 1)
SQ_E3 == make_square(4, 2)
SQ_E4 == make_square(4, 3)
\* the key of the start position with the side flipped and the pawn moved
\* from e2 to e4
KeyAfterE2E4 ==
    Xor(Xor(Xor(mem[0].key, Zobrist_side), Zobrist_psq(WHITE, PAWN, SQ_E2)),
        Zobrist_psq(WHITE, PAWN, SQ_E4))
AfterE2E4 == moves = << make_move(SQ_E2, SQ_E4) >> /\ RootIs(FenStart)

\* C12, as stated: from the start position, after do_move of e2e4 epSquare
\* is e3, rule50 is 0 and the key differs from the start key by side,
\* psq[White][Pawn][e2], psq[White][Pawn][e4] and enpassant[file E].
C12_AsStated ==
    AfterE2E4 =>
        /\ St(Pos).epSquare = SQ_E3
        /\ St(Pos).rule50 = 0
        /\ St(Pos).key = Xor(KeyAfterE2E4, Zobrist_enpassant(file_of(SQ_E3)))

\* C12, amended: from the start position, after do_move of e2e4 epSquare is
\* none, since no black pawn attacks e3, rule50 is 0 and the key differs from
\* the start key by exactly side, psq[White][Pawn][e2] and psq[White][Pawn][e4].
C12_E2E4 ==
    AfterE2E4 =>
        /\ St(Pos).epSquare = SQ_NONE
        /\ St(Pos).rule50 = 0
        /\ St(Pos).key = KeyAfterE2E4
\* the position after 1.e2e4, the pawn on e4
C12_Witness == AfterE2E4 /\ piece_on(Pos, SQ_E4) = make_piece(WHITE, PAWN) /\ nodes = 1

SQ_D5 == make_square(3, 4)
SQ_E5 == make_square(4, 4)
SQ_E6 == make_square(4, 5)
\* the position just parsed from a FEN
Parsed(fen) == moves = << >> /\ nodes = 0 /\ RootIs(fen)

\* C13, as stated: parsing "4k3/8/8/3Pp3/8/8/8/4K3 w - e6 0 1" yields epSquare
\* none.
C13_AsStated == Parsed(FenEpRecorded) => St(Pos).epSquare = SQ_NONE

\* C13, amended: parsing "4k3/8/8/3Pp3/8/8/8/4K3 w - e6 0 1" yields epSquare
\* e6, which the white pawn on d5 attacks; parsing the same FEN without that
\* pawn, "4k3/8/8/4p3/8/8/8/4K3 w - e6 0 1", yields epSquare none.
C13_EpKeptIffAttacked ==
    /\ Parsed(FenEpRecorded) =>
          /\ St(Pos).epSquare = SQ_E6
          /\ SQ_D5 \in attackers_to(Pos, SQ_E6, pieces(Pos)) \cap pieces_ct(Pos, WHITE, PAWN)
    /\ Parsed(FenEpUnattacked) => St(Pos).epSquare = SQ_NONE
\* the position parsed from the FEN of the claim: white pawn d5, black pawn e5
C13_Witness ==
    /\ Parsed(FenEpRecorded)
    /\ piece_on(Pos, SQ_D5) = make_piece(WHITE, PAWN)
    /\ piece_on(Pos, SQ_E5) = make_piece(BLACK, PAWN)
    /\ sideToMove = WHITE

SQ_E1 == make_square(4, 0)
\* C14: after parsing "r3k2r/8/8/8/8/8/8/R3K2R w KQkq - 0 1" and making
\* White's king-side castle e1h1, the white king is on g1 and the white rook
\* on f1 with e1 and h1 empty, both rights of White are cleared, both rights
\* of Black are still set, rule50 is one more than before and capturedType
\* is none.
C14_Castle ==
    (moves = << make_special(SQ_E1, SQ_H1, CASTLE, KNIGHT) >> /\ RootIs(FenCastles)) =>
        /\ piece_on(Pos, SQ_G1) = make_piece(WHITE, KING)
        /\ piece_on(Pos, SQ_F1) = make_piece(WHITE, ROOK)
        /\ is_empty(Pos, SQ_E1) /\ is_empty(Pos, SQ_H1)
        /\ ~can_castle(Pos, make_castle_right(WHITE, KING_SIDE))
        /\ ~can_castle(Pos, make_castle_right(WHITE, QUEEN_SIDE))
        /\ can_castle(Pos, make_castle_right(BLACK, KING_SIDE))
        /\ can_castle(Pos, make_castle_right(BLACK, QUEEN_SIDE))
        /\ St(Pos).rule50 = mem[0].rule50 + 1
        /\ St(Pos).capturedType = NO_PIECE_TYPE
\* the position after the castle, reached from a root holding all four rights
C14_Witness ==
    /\ RootIs(FenCastles) /\ moves = << make_special(SQ_E1, SQ_H1, CASTLE, KNIGHT) >>
    /\ mem[0].castleRights = {0, 1, 2, 3} /\ mem[0].rule50 = 0
    /\ king_square(Pos, WHITE) = SQ_G1 /\ sideToMove = BLACK

\* the record d plies back on the st chain
RECURSIVE Ancestor(_, _, _)
Ancestor(P, s, d) == IF d = 0 THEN s ELSE Ancestor(P, P.mem[s].previous, d - 1)
\* some record an even number of plies back, no farther than
\* min(rule50, pliesFromNull), holds the key of the current record
Repeated(P) ==
    \E d \in 1 .. Min2(St(P).rule50, St(P).pliesFromNull) :
        d % 2 = 0 /\ P.mem[Ancestor(P, P.st, d)].key = St(P).key

\* C15, as stated: with rule50 = 99, the side to move not in check, pawns on
\* the board and no repetition, is_draw returns true.
C15_AsStated ==
    (/\ St(Pos).rule50 = 99 /\ ~in_check(Pos)
     /\ pieces_t(Pos, PAWN) # {} /\ ~Repeated(Pos)) =>
        is_draw(Pos, FALSE) /\ is_draw(Pos, TRUE)

\* C15, amended: with the side to move not in check, pawns on the board and
\* no repetition, is_draw returns true when rule50 is 100 and false when
\* rule50 is 99.
C15_FiftyMoves ==
    (/\ St(Pos).rule50 \in {99, 100} /\ ~in_check(Pos)
     /\ pieces_t(Pos, PAWN) # {} /\ ~Repeated(Pos)) =>
        /\ is_draw(Pos, FALSE) <=> St(Pos).rule50 = 100
        /\ is_draw(Pos, TRUE) <=> St(Pos).rule50 = 100
\* a quiet king move has taken the clock from 99 to 100, pawns on the board
C15_Witness ==
    /\ St(Pos).rule50 = 100 /\ mem[0].rule50 = 99 /\ Len(moves) = 1
    /\ ~in_check(Pos) /\ pieces_t(Pos, PAWN) # {} /\ ~Repeated(Pos)

\* C16: where the draw by material does not apply, is_draw<true> returns
\* true if and only if rule50 > 99 and the side to move is not in check or
\* has a legal move; a side that is checkmated with rule50 >= 100 is not
\* reported as a draw.
C16_FiftyMovesNoMate ==
    ~MaterialDraw(Pos) =>
        /\ is_draw(Pos, TRUE) <=>
              (St(Pos).rule50 > 99 /\ (~in_check(Pos) \/ LegalMoves(Pos) # {}))
        /\ (St(Pos).rule50 >= 100 /\ in_check(Pos) /\ LegalMoves(Pos) = {}) =>
              ~is_draw(Pos, TRUE)
\* a checkmate given by the move that took the clock to 100
C16_Witness ==
    /\ St(Pos).rule50 = 100 /\ in_check(Pos) /\ LegalMoves(Pos) = {}
    /\ ~MaterialDraw(Pos) /\ Len(moves) = 1

\* none of the last d plies is a null move, a capture or a pawn move
QuietSince(P, d) ==
    /\ d <= Len(moves)
    /\ \A k \in 1 .. d :
          /\ moves[Len(moves) - k + 1] # MOVE_NULL
          /\ P.mem[Ancestor(P, P.st, k - 1)].capturedType = NO_PIECE_TYPE
          /\ P.mem[Ancestor(P, P.st, k - 1)].pawnKey = P.mem[Ancestor(P, P.st, k)].pawnKey

\* C17: in every position reached by legal moves and null moves where the
\* material and the fifty move rule do not apply, is_draw<false> returns true
\* if and only if some record an even number of plies back, no farther than
\* min(rule50, pliesFromNull), holds the key of the current record; a
\* repetition is reported only if no capture, pawn move or null move lies
\* between the two positions, and is_draw<true> never reports one.
C17_Repetition ==
    (~MaterialDraw(Pos) /\ ~FiftyMoveDraw(Pos)) =>
        /\ is_draw(Pos, FALSE) <=> Repeated(Pos)
        /\ is_draw(Pos, FALSE) =>
              \E d \in 1 .. Len(moves) :
                  /\ d % 2 = 0
                  /\ mem[Ancestor(Pos, st, d)].key = St(Pos).key
                  /\ QuietSince(Pos, d)
        /\ ~is_draw(Pos, TRUE)
\* the root position has come back after four king moves and is reported by
\* is_draw<false> only
C17_Witness ==
    /\ Len(moves) = 4 /\ St(Pos).key = mem[0].key
    /\ ~MaterialDraw(Pos) /\ ~FiftyMoveDraw(Pos)
    /\ is_draw(Pos, FALSE) /\ ~is_draw(Pos, TRUE)

\* the records on the previous chain below the record s
RECURSIVE Earlier(_, _)
Earlier(P, s) ==
    IF P.mem[s].previous = NULLPTR THEN {}
    ELSE {P.mem[s].previous} \cup Earlier(P, P.mem[s].previous)

\* C18: after copying a position whose history holds at least one earlier
\* record, the st of the copy points to the startState of the copy, which
\* holds the fields of the current record of the source, and no record of the
\* source is reachable from the copy, neither through st->previous nor by
\* the repetition walk of is_draw.
C18_CopyDetached ==
    St(Pos).previous # NULLPTR =>
        /\ copy_position(Pos).st = CopyState
        /\ [ St(copy_position(Pos)) EXCEPT !.previous = NULLPTR ]
               = [ St(Pos) EXCEPT !.previous = NULLPTR ]
        /\ Earlier(copy_position(Pos), CopyState) \cap DOMAIN mem = {}
        /\ is_draw(copy_position(Pos), FALSE)
               = is_draw([ copy_position(Pos) EXCEPT !.mem[CopyState].previous = NULLPTR,
                                                     !.mem[CopyState].pliesFromNull = 0 ], FALSE)

(***************************************************************************)
(* The static exchange evaluator against a minimax played out directly.    *)
(***************************************************************************)
\* the type of the least valuable piece among att, the king counting last
LeastValuable(P, att) ==
    CHOOSE pt \in PieceTypes :
        /\ (att \cap P.byTypeBB[pt]) # {}
        /\ \A q \in PieceTypes : q < pt => (att \cap P.byTypeBB[q]) = {}

\* the most that side c can win by capturing, or by declining to capture, the
\* piece worth v that stands on the square to, occ being the pieces left; of
\* two least valuable attackers of one type the one on the lower square
\* captures first
RECURSIVE Exchange(_, _, _, _, _)
Exchange(P, to, occ, c, v) ==
    LET mine == attackers_to(P, to, occ) \cap occ \cap pieces_c(P, c)
        theirs == attackers_to(P, to, occ) \cap occ \cap pieces_c(P, Opp(c))
    IN IF mine = {} THEN 0
       ELSE IF LeastValuable(P, mine) = KING /\ theirs # {} THEN 0
       ELSE Max2(0, v - Exchange(P, to,
                                 occ \ {lsb(mine \cap P.byTypeBB[LeastValuable(P, mine)])},
                                 Opp(c), PieceValueMg(LeastValuable(P, mine))))

\* the pieces left on the board once m is made, the destination aside
OccupiedAfter(P, m) ==
    IF move_type(m) = ENPASSANT
    THEN pieces(P) \ {from_sq(m), to_sq(m) - pawn_push(P.sideToMove)}
    ELSE pieces(P) \ {from_sq(m)}
\* the type of the piece m captures
CapturedBy(P, m) ==
    IF move_type(m) = ENPASSANT THEN PAWN ELSE type_of(piece_on(P, to_sq(m)))
\* the minimax value of m when the piece that arrives is worth arrived
Minimax(P, m, arrived) ==
    PieceValueMg(CapturedBy(P, m))
        - Exchange(P, to_sq(m), OccupiedAfter(P, m), Opp(P.sideToMove), arrived)
\* the other side has no attacker of the destination of m
Undefended(P, m) ==
    (attackers_to(P, to_sq(m), OccupiedAfter(P, m)) \cap OccupiedAfter(P, m)
        \cap pieces_c(P, Opp(P.sideToMove))) = {}

\* C19: for every legal capture m whose captured piece is worth at least the
\* moving piece (midgame values), see(m) >= 0; whenever see_sign(m) returns 1
\* without calling see, which it does for every king move, see(m) >= 0.
C19_SeeSign ==
    \A m \in LegalMoves(Pos) :
        /\ (/\ CapturedBy(Pos, m) # NO_PIECE_TYPE /\ move_type(m) # CASTLE
            /\ PieceValueMg(CapturedBy(Pos, m)) >= PieceValueMg(type_of(piece_moved(Pos, m))))
              => see(Pos, m) >= 0
        /\ PieceValueMg(type_of(piece_on(Pos, to_sq(m))))
                >= PieceValueMg(type_of(piece_moved(Pos, m)))
              => see_sign(Pos, m) = 1 /\ see(Pos, m) >= 0
        /\ type_of(piece_moved(Pos, m)) = KING => see_sign(Pos, m) = 1
\* a capture of equal value on a defended square, where see is 0 only because
\* the exchange may stop, and a king move
C19_Witness ==
    /\ \E m \in LegalMoves(Pos) :
          /\ move_type(m) = NORMAL /\ ~Undefended(Pos, m)
          /\ CapturedBy(Pos, m) # NO_PIECE_TYPE
          /\ PieceValueMg(CapturedBy(Pos, m)) >= PieceValueMg(type_of(piece_moved(Pos, m)))
          /\ see(Pos, m) < PieceValueMg(CapturedBy(Pos, m))
    /\ \E m \in LegalMoves(Pos) : type_of(piece_moved(Pos, m)) = KING /\ move_type(m) = NORMAL
    /\ nodes > 0

PseudoLegalAndLegal(P) ==
    LET pinned == pinned_pieces(P)
    IN { m \in { make_move(from, to) : from \in Squares, to \in Squares } :
           is_pseudo_legal(P, m) /\ pl_move_is_legal(P, m, pinned) }
       \cup { m \in LegalSpecial(P) : is_pseudo_legal(P, m) }
\* the start position with White to move, or with Black to move after one
\* move of White
StartPly(n) == Len(moves) = n /\ sideToMove = n /\ RootIs(FenStart)

\* C21, as stated: in the start position the side to move has exactly 16
\* legal moves, and so has Black once it is Black's turn.
C21_AsStated ==
    (StartPly(0) \/ StartPly(1)) => Cardinality(PseudoLegalAndLegal(Pos)) = 16

\* C21, amended: in the start position the side to move has exactly 20 legal
\* moves (moves that are pseudo-legal and pass pl_move_is_legal): 16 pawn
\* moves and 4 knight moves; and so has Black once it is Black's turn, after
\* any first move of White.
C21_StartMoves ==
    (StartPly(0) \/ StartPly(1)) =>
        LET ml == PseudoLegalAndLegal(Pos)
        IN /\ Cardinality(ml) = 20
           /\ Cardinality({ m \in ml : type_of(piece_moved(Pos, m)) = PAWN }) = 16
           /\ Cardinality({ m \in ml : type_of(piece_moved(Pos, m)) = KNIGHT }) = 4
C21_Witness ==
    /\ StartPly(1)
    /\ LastMove # MOVE_NULL
    /\ Cardinality(PseudoLegalAndLegal(Pos)) = 20

(***************************************************************************)
(* Exploring the tree of legal moves with do_move and undo_move.  perft    *)
(* makes every legal move of the position on the record of its ply, counts *)
(* the leaves below it and unmakes the move; the position it hands back is *)
(* the one all the makes and unmakes have left.  At the last ply the       *)
(* leaves are the legal moves of the position.                             *)
(***************************************************************************)
RECURSIVE perft(_, _, _), perft_loop(_, _, _, _)
perft_loop(P, depth, ply, ml) ==
    IF ml = {} THEN [ cnt |-> 0, pos |-> P ]
    ELSE LET m == CHOOSE x \in ml : TRUE
             sub == perft(do_move(P, m, ply), depth - 1, ply + 1)
             rest == perft_loop(Release(undo_move(sub.pos, m), ply), depth, ply, ml \ {m})
         IN [ cnt |-> sub.cnt + rest.cnt, pos |-> rest.pos ]
perft(P, depth, ply) ==
    IF depth = 1 THEN [ cnt |-> Cardinality(LegalMoves(P)), pos |-> P ]
    ELSE perft_loop(P, depth, ply, LegalMoves(P))
\* the exploration of the start position just parsed leaves the position as
\* it was: all that make / unmake must restore, the record in use and the
\* caller's records
Restored(P) == Observable(P) = Observable(Pos) /\ P.st = st /\ P.mem = mem

\* C22: exploring the standard start position with do_move and undo_move
\* over all legal moves, the number of legal leaf nodes is 20 at depth 1,
\* 400 at depth 2, 8902 at depth 3 and 197281 at depth 4, and after each
\* exploration the position is the start position again.
C22_Perft ==
    Parsed(FenStart) =>
        LET d1 == perft(Pos, 1, 1)
            d2 == perft(Pos, 2, 1)
            d3 == perft(Pos, 3, 1)
            d4 == perft(Pos, 4, 1)
        IN /\ d1.cnt = 20 /\ Restored(d1.pos)
           /\ d2.cnt = 400 /\ Restored(d2.pos)
           /\ d3.cnt = 8902 /\ Restored(d3.pos)
           /\ d4.cnt = 197281 /\ Restored(d4.pos)
C22_Witness ==
    /\ Parsed(FenStart)
    /\ perft(Pos, 2, 1).cnt = 400
    /\ perft(Pos, 2, 1).pos.nodes = 20

(***************************************************************************)
(* The castle keys.                                                        *)
(***************************************************************************)
\* the last move was made by do_move and cleared castle rights
ClearedRights ==
    /\ moves # << >>
    /\ LastMove # MOVE_NULL
    /\ St(Pos).castleRights # mem[St(Pos).previous].castleRights

\* C23: after Zobrist::init, for every castle rights cr in 0..15, castle[cr]
\* is the XOR of castle[1 << b] over the bits b set in cr, so castle[0] = 0
\* and castle[a] XOR castle[b] = castle[a XOR b]; therefore XORing
\* castle[rights & mask] out of the key when rights are cleared gives the key
\* that is computed from scratch with castle[rights & ~mask].
C23_CastleKeys ==
    /\ \A cr \in 0 .. 15 : castle[cr] = XorAll({ castle[2^b] : b \in BitsOf(cr) })
    /\ castle[0] = {}
    /\ \A a \in 0 .. 15, b \in 0 .. 15 : Xor(castle[a], castle[b]) = castle[XorInt(a, b)]
    /\ \A rights \in SUBSET (0 .. 3), mask \in SUBSET (0 .. 3) :
          Xor(Zobrist_castle[rights], Zobrist_castle[rights \cap mask])
            = Zobrist_castle[rights \ mask]
    /\ ClearedRights =>
          LET rights == mem[St(Pos).previous].castleRights
              mask == castleRightsMask[from_sq(LastMove)] \cup castleRightsMask[to_sq(LastMove)]
          IN /\ St(Pos).castleRights = rights \ mask
             /\ St(Pos).key = compute_key(Pos)
             /\ compute_key(Pos) =
                  Xor(Xor(compute_key([ Pos EXCEPT !.mem[st].castleRights = rights ]),
                          Zobrist_castle[rights]),
                      Zobrist_castle[rights \ mask])
C23_Witness ==
    /\ ClearedRights
    /\ Cardinality(mem[St(Pos).previous].castleRights \ St(Pos).castleRights) = 2
    /\ St(Pos).castleRights # {}
    /\ St(Pos).key = compute_key(Pos)

(***************************************************************************)
(* The flipped position.  The values flip must arrive at are computed here *)
(* from the position before the flip: every piece counts with the other    *)
(* colour on the mirrored square, every castle right belongs to the other  *)
(* side, the en passant file stays and the side to move changes.           *)
(***************************************************************************)
FlippedRights(P) ==
    { make_castle_right(Opp(c), cs) :
        <<c, cs>> \in { x \in Colors \X {KING_SIDE, QUEEN_SIDE} :
                          can_castle(P, make_castle_right(x[1], x[2])) } }
FlippedKey(P) ==
    LET k0 == XorAll({ Zobrist_psq(Opp(color_of(piece_on(P, s))), type_of(piece_on(P, s)),
                                   FlipSq(s)) : s \in pieces(P) })
        k1 == Xor(k0, Zobrist_castle[FlippedRights(P)])
        k2 == IF ep_square(P) # SQ_NONE
              THEN Xor(k1, Zobrist_enpassant(file_of(ep_square(P)))) ELSE k1
    IN IF P.sideToMove = WHITE THEN Xor(k2, Zobrist_side) ELSE k2
FlippedPawnKey(P) ==
    XorAll({ Zobrist_psq(Opp(color_of(piece_on(P, s))), PAWN, FlipSq(s)) :
               s \in pieces_t(P, PAWN) })
FlippedMaterialKey(P) ==
    XorAll({ Zobrist_psq(Opp(c), pt, cnt) :
               <<c, pt, cnt>> \in { x \in Colors \X (PAWN .. QUEEN) \X (0 .. 15) :
                                      x[3] < P.pieceCount[x[1]][x[2]] } })
FlippedBoard(P) ==
    [ s \in Squares |-> IF is_empty(P, FlipSq(s)) THEN NO_PIECE
                        ELSE make_piece(Opp(color_of(piece_on(P, FlipSq(s)))),
                                        type_of(piece_on(P, FlipSq(s)))) ]

\* C24: for every piece type pt and square s, pieceSquareTable[black pt][s
\* mirrored] = -pieceSquareTable[white pt][s]; so after flip (the colours
\* swapped and the board mirrored top to bottom) psqScore is the negation of
\* psqScore before the flip, and key, pawnKey, materialKey and npMaterial
\* have their from-scratch values on the flipped board.
C24_Flip ==
    /\ \A pt \in PieceTypes, s \in Squares :
          pieceSquareTable[make_piece(BLACK, pt)][FlipSq(s)]
            = -pieceSquareTable[make_piece(WHITE, pt)][s]
    /\ LET F == flip(Pos)
       IN /\ F.board = FlippedBoard(Pos)
          /\ F.sideToMove = Opp(sideToMove)
          /\ St(F).psqScore = -St(Pos).psqScore
          /\ St(F).key = FlippedKey(Pos) /\ St(F).key = compute_key(F)
          /\ St(F).pawnKey = FlippedPawnKey(Pos) /\ St(F).pawnKey = compute_pawn_key(F)
          /\ St(F).materialKey = FlippedMaterialKey(Pos)
          /\ St(F).materialKey = compute_material_key(F)
          /\ \A c \in Colors :
                /\ St(F).npMaterial[c] = St(Pos).npMaterial[Opp(c)]
                /\ St(F).npMaterial[c] = compute_non_pawn_material(F, c)
C24_Witness ==
    /\ St(Pos).psqScore # 0
    /\ St(Pos).npMaterial[WHITE] # St(Pos).npMaterial[BLACK]
    /\ St(Pos).castleRights # {}
    /\ St(flip(Pos)).psqScore = -St(Pos).psqScore
    /\ St(flip(Pos)).key # St(Pos).key

(***************************************************************************)
(* Castling in Chess960.                                                   *)
(***************************************************************************)
\* board, bitboards, piece lists, counts and index of P agree
Consistent(P) ==
    /\ pieces(P) = P.byColorBB[WHITE] \cup P.byColorBB[BLACK]
    /\ P.byColorBB[WHITE] \cap P.byColorBB[BLACK] = {}
    /\ \A s \in Squares :
          IF is_empty(P, s) THEN s \notin pieces(P)
          ELSE LET c == color_of(piece_on(P, s))
                   pt == type_of(piece_on(P, s))
               IN /\ c \in Colors /\ pt \in PieceTypes
                  /\ s \in pieces(P) /\ s \in P.byColorBB[c]
                  /\ \A t \in PieceTypes : (s \in P.byTypeBB[t]) = (t = pt)
                  /\ P.index[s] < P.pieceCount[c][pt]
                  /\ P.pieceList[c][pt][P.index[s]] = s
    /\ \A c \in Colors, pt \in PieceTypes :
          /\ P.pieceCount[c][pt] = Cardinality(pieces_ct(P, c, pt))
          /\ \A i \in 0 .. P.pieceCount[c][pt] - 1 :
                /\ piece_on(P, P.pieceList[c][pt][i]) = make_piece(c, pt)
                /\ P.index[P.pieceList[c][pt][i]] = i
\* the board of P after the castle m of its side to move: the king on the
\* g-file or c-file, the rook on the f-file or d-file of their rank, their
\* origins empty unless one of the two has come to stand there, and every
\* other square as it was
CastledBoard(P, m) ==
    LET us == P.sideToMove
        rank == rank_of(from_sq(m))
        short == file_of(to_sq(m)) > file_of(from_sq(m))
        kdest == make_square(IF short THEN 6 ELSE 2, rank)
        rdest == make_square(IF short THEN 5 ELSE 3, rank)
    IN [ s \in Squares |->
           CASE s = kdest -> make_piece(us, KING)
             [] s = rdest -> make_piece(us, ROOK)
             [] s = from_sq(m) \/ s = to_sq(m) -> NO_PIECE
             [] OTHER -> P.board[s] ]
\* the castles the side to move may make
Castles(P) == { m \in LegalMoves(P) : move_type(m) = CASTLE }

\* C25: for every Chess960 castling configuration, those included where the
\* king's destination is the rook's origin, the rook's destination is the
\* king's origin, both at once, or the king or the rook does not move,
\* do_castle_move<true> leaves exactly the king on its g-file or c-file
\* destination and the rook on its f-file or d-file destination, with board,
\* bitboards, piece lists and index consistent, and do_castle_move<false>
\* takes king and rook back to their squares with the same consistency.
C25_Chess960Castle ==
    /\ (moves = << >> /\ nodes = 0) => Cardinality(Castles(Pos)) = 1
    /\ \A m \in Castles(Pos) :
          LET D == do_move(Pos, m, NextSlot)
              Direct == do_castle_move(Pos, m, TRUE)
              U == undo_move(D, m)
              Back == do_castle_move([ D EXCEPT !.sideToMove = sideToMove ], m, FALSE)
          IN /\ D.board = CastledBoard(Pos, m)
             /\ Consistent(D)
             /\ Direct.board = D.board /\ Consistent(Direct)
             /\ U.board = board
             /\ Consistent(U)
             /\ Observable(U) = Observable(Pos)
             /\ Back = U
C25_Witness ==
    /\ chess960
    /\ moves = << make_special(SQ_F1, SQ_G1, CASTLE, KNIGHT) >>
    /\ board[SQ_G1] = make_piece(WHITE, KING)
    /\ board[SQ_F1] = make_piece(WHITE, ROOK)
    /\ index[SQ_F1] = 1
    /\ Consistent(Pos)

(***************************************************************************)
(* What one do_move or null move does to the castle rights, the two ply    *)
(* counters and the en passant square.  A step of the caller that makes a  *)
(* move appends it to moves; the unprimed variables are the position the   *)
(* move is made in and the primed ones the position it leaves.             *)
(***************************************************************************)
Made == moves'[Len(moves')]
IsDoMove == Len(moves') = Len(moves) + 1 /\ Made # MOVE_NULL
IsNullMove == Len(moves') = Len(moves) + 1 /\ Made = MOVE_NULL
\* the rights a side holds, and the square of the rook a right belongs to
RightsOf(c) == { make_castle_right(c, KING_SIDE), make_castle_right(c, QUEEN_SIDE) }
RookOf(cr) ==
    castleRookSquare[IF cr \in RightsOf(WHITE) THEN WHITE ELSE BLACK]
                    [IF cr \in { make_castle_right(WHITE, KING_SIDE),
                                 make_castle_right(BLACK, KING_SIDE) }
                     THEN KING_SIDE ELSE QUEEN_SIDE]
\* the rights of the position that do_move(m) takes away: those of the mover
\* if its king moves or castles, the one of a rook that leaves its original
\* square and the one of a rook captured there
RightsLost(m) ==
    LET us == sideToMove
        held == St(Pos).castleRights
    IN { cr \in held :
           \/ cr \in RightsOf(us) /\ from_sq(m) = king_square(Pos, us)
           \/ cr \in RightsOf(us) /\ from_sq(m) = RookOf(cr)
           \/ cr \in RightsOf(Opp(us)) /\ to_sq(m) = RookOf(cr) /\ move_type(m) # CASTLE }
\* no record on the previous chain holds fewer rights than the current one
NeverRegained == \A e \in Earlier(Pos, st) : St(Pos).castleRights \subseteq mem[e].castleRights

\* C26: along any sequence of do_move calls castleRights never gains a bit:
\* a do_move clears exactly the rights in castleRightsMask[from] |
\* castleRightsMask[to] (the king moved, the original rook moved or the
\* original rook captured; a castle clears both rights of the castling side)
\* and leaves every other right as it is, and a right once cleared stays
\* cleared in every later position until the clearing move is undone.
C26_CastleRights ==
    /\ []NeverRegained
    /\ [][IsDoMove =>
            /\ mem'[st'].castleRights =
                 St(Pos).castleRights
                   \ (castleRightsMask[from_sq(Made)] \cup castleRightsMask[to_sq(Made)])
            /\ mem'[st'].castleRights = St(Pos).castleRights \ RightsLost(Made)
            /\ move_type(Made) = CASTLE =>
                 mem'[st'].castleRights \cap RightsOf(sideToMove) = {}
            /\ castleRightsMask' = castleRightsMask]_vars
\* a rook took the rook of the other side on its original square, at the
\* cost of one right each, and the move that followed gave none of them back
C26_Witness ==
    /\ Len(moves) = 2 /\ moves[1] # MOVE_NULL /\ LastMove # MOVE_NULL
    /\ Cardinality(mem[0].castleRights) = 2
    /\ mem[mem[st].previous].castleRights = {}
    /\ mem[mem[st].previous].capturedType = ROOK
    /\ St(Pos).castleRights = {}

\* the move m, made in the current position, moves a pawn / takes a piece
IsPawnMove(m) == type_of(piece_on(Pos, from_sq(m))) = PAWN
IsCapture(m) ==
    \/ move_type(m) = ENPASSANT
    \/ move_type(m) # CASTLE /\ ~is_empty(Pos, to_sq(m))

\* C27: after do_move(m), rule50 is 0 if m is a capture (en passant
\* included) or any pawn move (promotion included), and otherwise the
\* previous rule50 plus 1 (castling does not reset it); pliesFromNull is the
\* previous value plus 1 after every do_move and 0 after a null move.
C27_PlyCounters ==
    [][/\ IsDoMove =>
            /\ mem'[st'].rule50 = IF IsCapture(Made) \/ IsPawnMove(Made) THEN 0
                                  ELSE St(Pos).rule50 + 1
            /\ mem'[st'].pliesFromNull = St(Pos).pliesFromNull + 1
       /\ IsNullMove => mem'[st'].pliesFromNull = 0]_vars
\* a castle made after a null move
C27_Witness ==
    /\ Len(moves) = 2 /\ moves[1] = MOVE_NULL
    /\ move_type(LastMove) = CASTLE
    /\ St(Pos).rule50 = 2
    /\ St(Pos).pliesFromNull = 1

\* the move m, made in the current position, pushes a pawn two squares
IsDoublePush(m) ==
    /\ IsPawnMove(m) /\ move_type(m) = NORMAL
    /\ file_of(to_sq(m)) = file_of(from_sq(m))
    /\ Abs(rank_of(to_sq(m)) - rank_of(from_sq(m))) = 2
\* the square a double push skips
Skipped(m) == make_square(file_of(from_sq(m)), (rank_of(from_sq(m)) + rank_of(to_sq(m))) \div 2)
\* the pawns of the other side that stand next to the destination of m, from
\* where they attack the square behind it
PawnsBeside(m) ==
    { s \in pieces_ct(Pos, Opp(sideToMove), PAWN) :
        /\ rank_of(s) = rank_of(to_sq(m))
        /\ Abs(file_of(s) - file_of(to_sq(m))) = 1 }

\* C28: in every position reached by do_move, epSquare is set only when the
\* move just made was a two-square pawn push and at least one pawn of the
\* new side to move attacks the skipped square, and then it is the skipped
\* square, on relative rank 6 of the side to move; any following do_move, of
\* any kind, castling included, or null move clears it, so that an ep square
\* never survives more than one ply.
C28_EpSquare ==
    [][/\ IsDoMove =>
            /\ mem'[st'].epSquare =
                 IF IsDoublePush(Made) /\ PawnsBeside(Made) # {} THEN Skipped(Made)
                 ELSE SQ_NONE
            /\ mem'[st'].epSquare # SQ_NONE =>
                 /\ relative_rank(sideToMove', rank_of(mem'[st'].epSquare)) = 5
                 /\ sideToMove' = Opp(sideToMove)
       /\ IsNullMove => mem'[st'].epSquare = SQ_NONE
       /\ (IsDoMove \/ IsNullMove) /\ St(Pos).epSquare # SQ_NONE =>
            mem'[st'].epSquare # St(Pos).epSquare]_vars
\* a double push next to a pawn of the other side has set the square
C28_Witness ==
    /\ moves # << >> /\ LastMove # MOVE_NULL
    /\ St(Pos).epSquare # SQ_NONE
    /\ St(Pos).epSquare = to_sq(LastMove) - pawn_push(Opp(sideToMove))
    /\ mem[St(Pos).previous].epSquare # St(Pos).epSquare
\* a castle made in a position with an ep square has cleared it
EpThenCastle ==
    /\ Len(moves) = 1 /\ move_type(LastMove) = CASTLE
    /\ mem[0].epSquare # SQ_NONE
    /\ St(Pos).epSquare = SQ_NONE

(***************************************************************************)
(* is_pseudo_legal on the encodings of the Normal kind.                    *)
(***************************************************************************)
\* the Normal move from one square to another with the promotion bits bits
Encoded(from, to, bits) == make_special(from, to, NORMAL, KNIGHT + bits)
\* the moves a pawn of the side to move on from may make to the square to
\* without promoting: one square forward to an empty square, two squares
\* forward from its home rank over an empty square to an empty square, or
\* one square forward to a neighbouring file onto a piece of the other side;
\* never to the last rank
PawnMayMove(P, from, to) ==
    LET us == P.sideToMove
        ahead == IF us = WHITE THEN 1 ELSE -1
        sameFile == file_of(to) = file_of(from)
    IN /\ relative_rank(us, rank_of(to)) # 7
       /\ \/ /\ sameFile /\ rank_of(to) = rank_of(from) + ahead
             /\ is_empty(P, to)
          \/ /\ sameFile /\ rank_of(to) = rank_of(from) + 2 * ahead
             /\ relative_rank(us, rank_of(from)) = 1
             /\ is_empty(P, to)
             /\ is_empty(P, make_square(file_of(from), rank_of(from) + ahead))
          \/ /\ Abs(file_of(to) - file_of(from)) = 1 /\ rank_of(to) = rank_of(from) + ahead
             /\ ~is_empty(P, to) /\ color_of(piece_on(P, to)) = Opp(us)

\* C29: for a Normal move of a pawn of the side to move when not in check,
\* is_pseudo_legal returns true exactly when the move is a one-square forward
\* push to an empty square not on the last rank, a two-square forward push
\* from the home rank with the square between and the destination empty, or
\* a forward capture on a neighbouring file of a piece of the other side not
\* on the last rank.  It returns false for backward moves, diagonals that
\* wrap around the board edge, every move with a promotion type set, and
\* every move whose origin does not hold a piece of the side to move or whose
\* destination holds a piece of the side to move.
C29_PawnPseudoLegal ==
    LET P == Pos
        own == pieces_c(P, sideToMove)
    IN /\ ~in_check(P) =>
             \A from \in pieces_ct(P, sideToMove, PAWN), to \in Squares :
                 is_pseudo_legal(P, Encoded(from, to, 0)) = PawnMayMove(P, from, to)
       /\ \A from \in Squares, to \in Squares :
             (from \notin own \/ to \in own) => ~is_pseudo_legal(P, Encoded(from, to, 0))
       /\ \A from \in own, to \in Squares, bits \in 1 .. 3 :
             ~is_pseudo_legal(P, Encoded(from, to, bits))
\* the pawn a4 may not take the pawn h4, seven squares on, nor the pawn h3
\* the pawn a5, nine squares on; the pawn e2 may go to e3 and e4, the pawn f7
\* neither to f8 nor to g8
C29_Witness ==
    /\ Parsed(FenPawns)
    /\ ~in_check(Pos)
    /\ ~is_pseudo_legal(Pos, make_move(24, 31))
    /\ ~is_pseudo_legal(Pos, make_move(23, 32))
    /\ is_pseudo_legal(Pos, make_move(12, 20))
    /\ is_pseudo_legal(Pos, make_move(12, 28))
    /\ ~is_pseudo_legal(Pos, make_move(53, 61))
    /\ ~is_pseudo_legal(Pos, make_move(53, 62))

(***************************************************************************)
(* is_pseudo_legal when the side to move is in check.                      *)
(***************************************************************************)
\* s lies on the line from a to b, strictly between them
StrictlyBetween(a, b, s) ==
    \E df \in -1 .. 1, dr \in -1 .. 1, n \in 2 .. 7, k \in 1 .. 6 :
       /\ k < n
       /\ file_of(b) = file_of(a) + n * df /\ rank_of(b) = rank_of(a) + n * dr
       /\ file_of(s) = file_of(a) + k * df /\ rank_of(s) = rank_of(a) + k * dr
\* an enemy piece attacks s once the king of the side to move has left from
AttackedWithoutKing(P, from, s) ==
    \E a \in pieces_c(P, Opp(P.sideToMove)) :
        a \in attackers_to(P, s, pieces(P) \ {from})

\* C30: when the side to move is in check, is_pseudo_legal rejects every
\* Normal move of a piece other than the king if there are two checkers,
\* rejects such a move unless its destination is the square of the single
\* checker or a square strictly between the checker and the king, and rejects
\* a king move to a square that an enemy piece attacks once the king is taken
\* out of the occupancy.
C30_Evasions ==
    LET P == Pos
        ksq == king_square(P, sideToMove)
    IN in_check(P) =>
          \A from \in pieces_c(P, sideToMove), to \in Squares :
             LET m == make_move(from, to)
             IN IF from # ksq
                THEN /\ Cardinality(checkers(P)) >= 2 => ~is_pseudo_legal(P, m)
                     /\ is_pseudo_legal(P, m) =>
                           \E c \in checkers(P) : to = c \/ StrictlyBetween(c, ksq, to)
                ELSE AttackedWithoutKing(P, from, to) => ~is_pseudo_legal(P, m)
\* after the knight has left e4 for c3 the rook e1 checks the king e6: the
\* rook a2 may block on e2, the bishop f8 may not go to c5, and the king may
\* not step back to e7, which the rook attacks only through the king's square
C30_Witness ==
    /\ RootIs(FenEvade)
    /\ moves = << make_move(make_square(4, 3), make_square(2, 2)) >>
    /\ checkers(Pos) = { SQ_E1 }
    /\ is_pseudo_legal(Pos, make_move(make_square(0, 1), SQ_E2))
    /\ ~is_pseudo_legal(Pos, make_move(make_square(5, 7), make_square(2, 4)))
    /\ attackers_to(Pos, make_square(4, 6), pieces(Pos)) \cap pieces_c(Pos, WHITE) = {}
    /\ ~is_pseudo_legal(Pos, make_move(SQ_E6, make_square(4, 6)))
\* after the knight has gone to c5 it checks together with the rook e1: the
\* bishop f8 may not take it and the rook a2 may not block on e2
DoubleCheck ==
    /\ RootIs(FenEvade)
    /\ Cardinality(checkers(Pos)) = 2
    /\ ~is_pseudo_legal(Pos, make_move(make_square(5, 7), make_square(2, 4)))
    /\ ~is_pseudo_legal(Pos, make_move(make_square(0, 1), SQ_E2))

(***************************************************************************)
(* move_attacks_square against the position after the move.                *)
(***************************************************************************)
\* after the move m is made from P, the square s is attacked by the moved
\* piece from its destination, or by a rook, bishop or queen of the mover
\* that did not attack s before the move
AttackedAfter(P, m, s) ==
    LET Q == do_move(P, m, NextSlot)
        us == P.sideToMove
        to == to_sq(m)
        after == attackers_to(Q, s, pieces(Q)) \cap pieces_c(Q, us)
        before == attackers_to(P, s, pieces(P))
    IN \/ to \in after
       \/ \E x \in after \ {to} :
             /\ type_of(piece_on(Q, x)) \in { BISHOP, ROOK, QUEEN }
             /\ x \notin before
\* the legal Normal moves that take nothing
QuietMoves(P) == { m \in LegalNormal(P) : is_empty(P, to_sq(m)) }

\* C31: for every legal Normal move m, quiet or capture, and every square s,
\* move_attacks_square(m, s) is true if and only if, after m is made, s is
\* attacked by the moved piece from its destination or by a rook, bishop or
\* queen of the mover whose line to s was blocked before the move and is open
\* after it.
C31_MoveAttacksSquare ==
    Len(moves) < limit.ply =>
       \A m \in LegalNormal(Pos), s \in Squares :
           move_attacks_square(Pos, m, s) = AttackedAfter(Pos, m, s)
\* the same for the moves that take nothing
QuietAttacksSquare ==
    Len(moves) < limit.ply =>
       \A m \in QuietMoves(Pos), s \in Squares :
           move_attacks_square(Pos, m, s) = AttackedAfter(Pos, m, s)

(***************************************************************************)
(* hidden_checkers against the geometry of the board.                      *)
(***************************************************************************)
\* the squares a and b share a rank or a file
OnRookLine(a, b) == a # b /\ (file_of(a) = file_of(b) \/ rank_of(a) = rank_of(b))
\* the squares a and b share a diagonal
OnBishopLine(a, b) == a # b /\ Abs(file_of(a) - file_of(b)) = Abs(rank_of(a) - rank_of(b))
\* y lies on the segment from a to b, the ends excluded
LiesBetween(a, b, y) ==
    LET df == file_of(b) - file_of(a)
        dr == rank_of(b) - rank_of(a)
        ef == file_of(y) - file_of(a)
        er == rank_of(y) - rank_of(a)
    IN /\ ef * dr = er * df
       /\ ef * df + er * dr > 0
       /\ ef * ef + er * er < df * df + dr * dr
\* the pieces of the side to move that stand alone between the king on ksq
\* and a rook or queen of the colour c on its rank or file, or a bishop or
\* queen of the colour c on one of its diagonals
AloneBetween(P, ksq, c) ==
    { x \in pieces_c(P, P.sideToMove) :
        \E s \in pieces_c(P, c) :
           /\ \/ type_of(piece_on(P, s)) \in { ROOK, QUEEN } /\ OnRookLine(s, ksq)
              \/ type_of(piece_on(P, s)) \in { BISHOP, QUEEN } /\ OnBishopLine(s, ksq)
           /\ { y \in pieces(P) : LiesBetween(s, ksq, y) } = { x } }

\* C32: hidden_checkers<true>() is exactly the set of pieces of the side to
\* move that are the only piece strictly between the king of the side to move
\* and an enemy rook or queen on a shared rank or file or an enemy bishop or
\* queen on a shared diagonal; hidden_checkers<false>() is exactly the set of
\* pieces of the side to move that are the only piece strictly between the
\* enemy king and such a slider of the side to move.
C32_HiddenCheckers ==
    /\ hidden_checkers(Pos, TRUE)
         = AloneBetween(Pos, king_square(Pos, sideToMove), Opp(sideToMove))
    /\ hidden_checkers(Pos, FALSE)
         = AloneBetween(Pos, king_square(Pos, Opp(sideToMove)), sideToMove)
\* in "4k3/8/8/8/8/4r3/4R3/4K3 w" the rook e2 is pinned by the rook e3, and the
\* rook e3, alone between the rook e2 and the king e8, is not of the side to move
C32_Witness ==
    /\ Parsed(FenPin)
    /\ hidden_checkers(Pos, TRUE) = { SQ_E2 }
    /\ hidden_checkers(Pos, FALSE) = {}
\* in "4k3/8/8/8/4N3/8/8/4RK2 w" the knight e4 uncovers the rook e1
Uncovers ==
    /\ Parsed(FenDisc)
    /\ hidden_checkers(Pos, TRUE) = {}
    /\ hidden_checkers(Pos, FALSE) = { SQ_E4 }

(***************************************************************************)
(* The classical castling letters of from_fen.                             *)
(***************************************************************************)
\* the roots with classical castling letters, and the colour and side that
\* each letter stands for
ScanRoots ==
    { [ fen |-> FenScanInner, c |-> c, cs |-> cs ] : c \in Colors, cs \in { KING_SIDE, QUEEN_SIDE } }
    \cup { [ fen |-> FenScanEnemy, c |-> WHITE, cs |-> KING_SIDE ],
           [ fen |-> FenScanOther, c |-> WHITE, cs |-> KING_SIDE ] }
\* the rooks of the colour c on its back rank, on the side cs of its king
OwnRooksOnSide(P, c, cs) ==
    { s \in pieces_ct(P, c, ROOK) :
        /\ rank_of(s) = relative_rank(c, 0)
        /\ IF cs = KING_SIDE THEN file_of(s) > file_of(king_square(P, c))
           ELSE file_of(s) < file_of(king_square(P, c)) }
\* the one of a set of rooks that is farthest from the king
Outermost(rooks, cs) ==
    CHOOSE s \in rooks :
        \A t \in rooks : IF cs = KING_SIDE THEN file_of(t) <= file_of(s)
                         ELSE file_of(t) >= file_of(s)
\* the scan for the letter of the colour c and the side cs selects the
\* outermost rook of c on that side, and that side's right is granted for it
ScanOk(P, c, cs) ==
    LET rsq == IF cs = KING_SIDE THEN FenRookScan(P, relative_square(c, SQ_H1), -1)
               ELSE FenRookScan(P, relative_square(c, SQ_A1), 1)
        rooks == OwnRooksOnSide(P, c, cs)
    IN /\ rsq \in Squares
       /\ rooks # {}
       /\ rsq = Outermost(rooks, cs)
       /\ can_castle(P, make_castle_right(c, cs))
       /\ castle_rook_square(P, c, cs) = rsq

\* C33: when from_fen reads a classical castling letter K (Q) for the colour
\* c, the rook it selects is the outermost rook of c on the king side (queen
\* side) of c's king on c's back rank, the right granted is the king-side
\* (queen-side) right, and the scan ends on the board; it never selects a rook
\* on the other side of the king, a rook of the other colour or a square off
\* the back rank.
C33_ClassicalLetters ==
    \A r \in ScanRoots : Parsed(r.fen) => ScanOk(Pos, r.c, r.cs)
\* the letters of "1r2k1r1/8/8/8/8/8/8/1R2K1R1 w KQkq" select the rooks b1, g1,
\* b8 and g8
ScanInner ==
    Parsed(FenScanInner) => \A c \in Colors, cs \in { KING_SIDE, QUEEN_SIDE } : ScanOk(Pos, c, cs)

(***************************************************************************)
(* is_draw: the draw by material.                                          *)
(***************************************************************************)
\* the non-pawn material of both sides, counted on the board
Material(P) == compute_non_pawn_material(P, WHITE) + compute_non_pawn_material(P, BLACK)
\* king against king, or with one knight or one bishop on either side
Meagre(P) ==
    LET others == pieces(P) \ pieces_t(P, KING)
    IN \/ others = {}
       \/ \E s \in others : others = { s } /\ type_of(piece_on(P, s)) \in { KNIGHT, BISHOP }

\* C34: is_draw returns true in every position with no pawns on the board in
\* which the non-pawn material of both sides together is at most the midgame
\* value of one bishop (king against king, or with one knight or one bishop),
\* whatever rule50, the check status and the history; and with any pawn on
\* the board the draw by material does not apply.
C34_MaterialDraw ==
    /\ (pieces_t(Pos, PAWN) = {} /\ Material(Pos) <= BishopValueMg) =>
           is_draw(Pos, TRUE) /\ is_draw(Pos, FALSE)
    /\ (pieces_t(Pos, PAWN) = {} /\ Material(Pos) <= BishopValueMg) <=> Meagre(Pos)
    /\ pieces_t(Pos, PAWN) # {} => ~MaterialDraw(Pos)
\* king and bishop against king, the bishop giving check, the clock below 100
\* and no position repeated
C34_Witness ==
    /\ Meagre(Pos)
    /\ pieces_t(Pos, BISHOP) # {}
    /\ in_check(Pos)
    /\ St(Pos).rule50 < 100
    /\ ~Repeated(Pos)
    /\ is_draw(Pos, TRUE)

(***************************************************************************)
(* to_fen of a position just parsed.                                       *)
(***************************************************************************)
\* the roots whose FEN is the classical FEN of a legal position with the
\* castling letters in the order KQkq and an en passant field that is "-" or
\* a square attacked by a pawn of the side to move
RoundTripRoots ==
    { FenStart, FenEpRecorded, FenCastles, FenFifty, FenFiftyMate, FenEpCastle, FenBishop,
      FenMinors, FenSubset, FenRep }
\* the last field of a FEN read as a number
LastSpace(fen) == CHOOSE i \in 1 .. Len(fen) : fen[i] = " " /\ \A j \in i + 1 .. Len(fen) : fen[j] # " "
RECURSIVE NumberAt(_, _, _)
NumberAt(fen, i, acc) ==
    IF i > Len(fen) THEN acc ELSE NumberAt(fen, i + 1, 10 * acc + DigitVal(fen[i]))
FullmoveOf(fen) == NumberAt(fen, LastSpace(fen) + 1, 0)

\* C35: for a well-formed classical FEN F of a legal position with fullmove
\* number at least 1, castling letters in the order KQkq and an en passant
\* field that is "-" or a square attacked by a pawn of the side to move,
\* to_fen(from_fen(F)) = F; startPosPly is max(2 * (fullmove - 1), 0) plus 1
\* if Black is to move, and the fullmove number that to_fen emits,
\* 1 + (startPosPly - (1 if Black is to move)) / 2, is the one parsed.
C35_ParsedRoundTrip ==
    \A F \in RoundTripRoots :
       Parsed(F) =>
          LET black == IF sideToMove = BLACK THEN 1 ELSE 0
          IN /\ FullmoveOf(F) >= 1
             /\ to_fen(Pos) = F
             /\ startPosPly = Max2(2 * (FullmoveOf(F) - 1), 0) + black
             /\ 1 + TruncDiv(startPosPly - black, 2) = FullmoveOf(F)
\* "4k2r/8/8/8/8/8/8/R3K3 b Qk - 12 34" just parsed: Black to move in move 34
C35_Witness ==
    /\ Parsed(FenSubset)
    /\ sideToMove = BLACK
    /\ startPosPly = 67
    /\ to_fen(Pos) = FenSubset

(***************************************************************************)
(* The reach of the repetition walk of is_draw<false>.                     *)
(***************************************************************************)
\* the do_move calls on the stack since the last null move
RECURSIVE SinceNull(_)
SinceNull(ms) ==
    IF ms = << >> \/ ms[Len(ms)] = MOVE_NULL THEN 0
    ELSE 1 + SinceNull(SubSeq(ms, 1, Len(ms) - 1))
\* the do_move calls on the stack
RECURSIVE MadeCount(_)
MadeCount(ms) ==
    IF ms = << >> THEN 0
    ELSE (IF ms[Len(ms)] = MOVE_NULL THEN 0 ELSE 1) + MadeCount(SubSeq(ms, 1, Len(ms) - 1))
\* the distance of the farthest record the walk can read: the walk starts two
\* records back and goes on by two while i <= e, so it reads the records 4, 6,
\* ... plies back up to e = min(rule50, pliesFromNull), and follows the
\* previous links of all the records before those
WalkReach(P) ==
    LET e == Min2(St(P).rule50, St(P).pliesFromNull)
    IN IF 4 <= e THEN e - (e % 2) ELSE 0

\* C36: for a position set up by from_fen and advanced by legal do_move,
\* undo_move and null moves made and unmade, the repetition walk of
\* is_draw<false> never follows the previous link of the root record
\* startState, which is null: every record it reads lies no farther from the
\* current record than the number of do_move calls on the stack since the
\* last null move.
C36_WalkStaysInHistory ==
    /\ St(Pos).pliesFromNull = SinceNull(moves)
    /\ WalkReach(Pos) <= SinceNull(moves)
    /\ Ancestor(Pos, st, MadeCount(moves)) = 0
    /\ mem[0].previous = NULLPTR
    /\ \A d \in 0 .. WalkReach(Pos) - 1 :
          /\ Ancestor(Pos, st, d) # 0
          /\ mem[Ancestor(Pos, st, d)].previous # NULLPTR
\* four plies without a null move, a capture or a pawn move: the walk reads
\* the root record and goes no farther
C36_Witness ==
    /\ WalkReach(Pos) = 4
    /\ Len(moves) = 4
    /\ Ancestor(Pos, st, 4) = 0
    /\ is_draw(Pos, FALSE)
    /\ ~is_draw(Pos, TRUE)
\* a null move among the last plies keeps the walk from starting
NullStopsWalk ==
    /\ Len(moves) = 4
    /\ St(Pos).rule50 >= 4
    /\ SinceNull(moves) < 4
    /\ WalkReach(Pos) = 0

(***************************************************************************)
(* The history of records as a stack.                                      *)
(***************************************************************************)
\* the records of the chain from record s, the nearest first; the chain of
\* the current record is as long as the number of do_move calls on the stack
Chain(P, s, n) == [ d \in 0 .. n |-> P.mem[Ancestor(P, s, d)] ]
IsUndoMove == Len(moves') = Len(moves) - 1 /\ moves[Len(moves)] # MOVE_NULL
IsUndoNullMove == Len(moves') = Len(moves) - 1 /\ moves[Len(moves)] = MOVE_NULL
\* do_move(m, newSt) and undo_move(m) made one after the other from P
MoveAndBack(P, m, newSt) == undo_move(do_move(P, m, newSt), m)
\* do_null_move<true>(backupSt) and do_null_move<false>(backupSt) made one
\* after the other from P
NullAndBack(P, backupSt) == do_null_move(do_null_move(P, backupSt, TRUE), backupSt, FALSE)
\* a pair of calls leaves st and every record of its chain as they were and
\* adds n to the nodes counter
SameHistory(Q, n) ==
    /\ Q.st = st
    /\ Chain(Q, Q.st, MadeCount(moves)) = Chain(Pos, st, MadeCount(moves))
    /\ Q.nodes = nodes + n
LifoStep ==
    LET made == MadeCount(moves)
    IN /\ IsDoMove =>
            /\ st' = NextSlot /\ st' # st
            /\ mem'[st'].previous = st
            /\ \A d \in 0 .. made : mem'[Ancestor(Pos, st, d)] = mem[Ancestor(Pos, st, d)]
            /\ nodes' = nodes + 1
       /\ IsUndoMove =>
            /\ st' = mem[st].previous
            /\ \A d \in 1 .. made : mem'[Ancestor(Pos, st, d)] = mem[Ancestor(Pos, st, d)]
            /\ nodes' = nodes
       /\ IsNullMove =>
            /\ st' = st
            /\ \A d \in 1 .. made : mem'[Ancestor(Pos, st, d)] = mem[Ancestor(Pos, st, d)]
            /\ nodes' = nodes
       /\ IsUndoNullMove =>
            /\ st' = st
            /\ \A d \in 1 .. made : mem'[Ancestor(Pos, st, d)] = mem[Ancestor(Pos, st, d)]
            /\ nodes' = nodes
       /\ Len(moves) < limit.ply =>
            /\ \A m \in LegalMoves(Pos) : SameHistory(MoveAndBack(Pos, m, NextSlot), 1)
            /\ ~in_check(Pos) => SameHistory(NullAndBack(Pos, NextSlot), 0)
       /\ Len(moves) + 1 < limit.ply =>
            \A m \in LegalMoves(Pos) :
                LET D == do_move(Pos, m, NextSlot)
                IN ~in_check(D) =>
                      SameHistory(undo_move(NullAndBack(D, NextSlot + 1), m), 1)

\* C37: the history is a stack: do_move links the caller's record with
\* previous = the old st and makes it the current one, and neither do_move nor
\* undo_move writes a field of a record earlier in the chain; so after a
\* do_move/undo_move pair, a null move made and unmade, or one nested in the
\* other, st points to the record it pointed to before with every field of the
\* chain as it was, and the nodes counter has grown by the number of do_move
\* calls: undo_move and the null moves never change it.
C37_HistoryIsStack == [][LifoStep]_vars
\* the caller is back in the record of its first move after a second move has
\* been made and unmade above it
C37_Witness ==
    /\ Len(moves) = 1 /\ moves[1] # MOVE_NULL
    /\ nodes = 2
    /\ st = 1 /\ mem[1].previous = 0
    /\ LegalMoves(Pos) # {}

(***************************************************************************)
(* path_normalize of the mac module as a copy.                             *)
(***************************************************************************)
\* out holds the string in with its terminator
CopiedExactly(F) ==
    LET n == strlen(F.in)
    IN (\A k \in 0 .. n - 1 : F.out[k] = F.in[k]) /\ F.out[n] = NUL
\* the step writes nothing beyond out[n]
WritesWithin ==
    \A k \in DOMAIN frame.out : k > strlen(frame.in) => frame'.out[k] = frame.out[k]

\* C38: for every NUL-terminated string in of length n, path_normalize(in,
\* out) of the mac module leaves an exact NUL-terminated copy in out: out[k] =
\* in[k] for all k < n and out[n] = '\0'; and it writes no byte of out beyond
\* index n.
C38_ExactCopy ==
    [][frame.pc # "none" => /\ frame'.pc = "done" => CopiedExactly(frame')
                           /\ WritesWithin]_vars
\* what the function does: the n characters are copied, out[n] is left as it
\* was and the terminator is put at out[n + 1]
TerminatorOneBeyond ==
    [][frame.pc = "terminate" =>
          LET n == strlen(frame.in)
          IN /\ frame.i = n + 1
             /\ \A k \in 0 .. n - 1 : frame'.out[k] = frame.in[k]
             /\ frame'.out[n] = frame.out[n]
             /\ frame'.out[n + 1] = NUL
             /\ frame'.pc = "done"]_vars
\* a call has returned with a byte other than the terminator at out[n]
Unterminated ==
    /\ frame.pc = "done"
    /\ frame.out[strlen(frame.in)] # NUL
    /\ strlen(frame.in) = MaxLen
====
